---- MODULE Spec2Model ----
(***************************************************************************)
(* Voice-agent pipeline: the Agent Turn Controller (core/src/agent.ts),    *)
(* the OpenAI text-to-speech adapter (provider/openai/src/tts.ts), the     *)
(* Hume text-to-speech adapter (provider/hume/src/tts.ts), the voice       *)
(* sessions of the career coach (packages/twilio/src/index.ts) and the     *)
(* OpenAI speech-to-text adapter (provider/openai/src/stt.ts).             *)
(*                                                                         *)
(* Each component has its own variables (prefix a_, o_, h_, t_, s_), its   *)
(* own next-state relation and its own specification over the common Init. *)
(* JavaScript runs every callback to completion, so one action is one      *)
(* synchronous run of a handler between two awaits.                        *)
(***************************************************************************)
EXTENDS Integers, Sequences, FiniteSets, TLC

(***************************************************************************)
(* Bounds of the model.                                                    *)
(***************************************************************************)
MaxEvents == 3      \* events one agent stream yields
MaxTasks == 2       \* tasks one state query reports
MaxSegments == 2    \* text segments submitted to a TTS transform
AudioPerSegment == 1 \* audio messages the Hume provider sends for one segment
MaxChunks == 2      \* 4096-byte chunks of one synthesised segment
MaxInterrupts == 2  \* interrupt() calls on one TTS adapter
CooldownTicks == 2  \* clock ticks the 100 ms cooldown timer lasts
MaxSessions == 2    \* voice sessions created in the process
MaxHangUps == 2     \* hang-ups the agents of all sessions ask for
MaxFrames == 10     \* frames of the PCM stream
SamplesPerFrame == 1 \* 16-bit samples of one frame (512 at 16 kHz)
MaxChunkBytes == 3  \* bytes of one chunk handed to the STT transform
MaxMiddlewares == 2 \* middlewares given to createVoiceAgent
MaxPcmBytes == 6    \* bytes of the PCM stream handed to PcmToMulawTransform
MaxPcmChunk == 4    \* bytes of one chunk handed to PcmToMulawTransform

(***************************************************************************)
(* Values fixed by the code.                                               *)
(***************************************************************************)
frameSizeMs == 32           \* stt.ts:100
minSpeechFrames == 4        \* stt.ts:103
vadEnergyThreshold == 500   \* stt.ts:92, the default of the option
echoFilterMs == 800         \* stt.ts:307
MULAW_BIAS == 132           \* part_005:11, 0x84
MULAW_CLIP == 32635         \* part_005:13
targetSampleRate == 8000    \* part_005:70

VARIABLES
    a_stopped,      \* state.stopped
    a_pending,      \* state.pendingInterrupt ("undefined" is the JS undefined)
    a_pc,           \* position of the running transform() call
    a_hangup,       \* pendingHangUpReason of the running call ("null" or the content)
    a_nEvents,      \* events the current stream has yielded
    a_log,          \* what the current turn did downstream, in order
    a_call,         \* the latest input handed to agent.stream()
    a_reported,     \* did the latest completed state query report an interrupt
    a_faults,       \* errors the agent collaborator has raised
    a_shape         \* what became of the latest event of no known shape:
                    \* "none" yet, "ignored", or "threw"

agentVars == <<a_stopped, a_pending, a_pc, a_hangup, a_nEvents, a_log, a_call,
               a_reported, a_faults, a_shape>>

VARIABLES
    o_isInterrupted,    \* instance.isInterrupted
    o_timers,           \* ticks left of each pending setTimeout, oldest first
    o_pc,               \* position of the running transform() call
    o_segs,             \* text segments submitted so far
    o_out,              \* audio chunks enqueued, in order
    o_results,          \* how each finished segment ended, in order
    o_interrupts,       \* interrupt() calls so far
    o_cut,              \* was interrupt() called since the running call began
    o_busyInterrupts,   \* interrupt() calls made while a call was running
    o_repeated          \* interrupt() calls made inside the cooldown of an earlier one

openaiVars == <<o_isInterrupted, o_timers, o_pc, o_segs, o_out, o_results,
                o_interrupts, o_cut, o_busyInterrupts, o_repeated>>

VARIABLES
    h_ws,               \* ws: 0 for null, else the socket
    h_connectionPromise, \* connectionPromise: 0 for null, else the socket it waits for
    h_isInterrupted,    \* isInterrupted
    h_timers,           \* ticks left of each pending setTimeout, oldest first
    h_pc,               \* position of the running transform() call
    h_sock,             \* every WebSocket created: its state and the audio in flight
    h_nsock,            \* WebSockets created so far
    h_segs,             \* text segments submitted so far
    h_out,              \* audio chunks enqueued, in order
    h_results,          \* how each finished transform() call ended, in order
    h_audioComplete,    \* onAudioComplete calls so far
    h_onInterrupt,      \* onInterrupt calls so far
    h_interrupts,       \* interrupt() calls so far
    h_cut,              \* segments submitted before an interrupt() that took effect
    h_busyInterrupts,   \* interrupt() calls made while a synthesis was in flight
    h_repeated,         \* interrupt() calls made inside the cooldown of an earlier one
    h_repeatEffect,     \* did such a call change the connection, the flag or a timer
    h_isShuttingDown,   \* isShuttingDown
    h_closePromise,     \* closePromise: "null", "pending" or "resolved"
    h_flush,            \* flush(): "none", "awaiting" its race, or "done"
    h_flushTimer        \* the 5 s timer of flush(): "none", "pending" or "fired"

humeVars == <<h_ws, h_connectionPromise, h_isInterrupted, h_timers, h_pc, h_sock,
              h_nsock, h_segs, h_out, h_results, h_audioComplete, h_onInterrupt,
              h_interrupts, h_cut, h_busyInterrupts, h_repeated, h_repeatEffect,
              h_isShuttingDown, h_closePromise, h_flush, h_flushTimer>>

VARIABLES
    t_sessions,         \* the sessions created, each with the parameters it was given
    t_pendingHangUp,    \* the module's pendingHangUp: the reason it holds and
                        \* the session whose agent gave it (0 for null)
    t_closes,           \* closeConnection calls, in order
    t_hangups           \* onHangUp calls so far

twilioVars == <<t_sessions, t_pendingHangUp, t_closes, t_hangups>>

VARIABLES
    s_pc,               \* "new" before the constructor, then the position of the
                        \* running transform() call
    s_vadSilenceFrames, \* option vadSilenceFrames
    s_minAudioDurationMs, \* option minAudioDurationMs
    s_vad,              \* audioBuffer, speechFrameCount, silenceFrameCount,
                        \* isSpeaking, speechStartSignaled
    s_pendingBytes,     \* pendingBytes: the bytes held back, by stream position
    s_combined,         \* combined of the running call
    s_offset,           \* offset of the running call
    s_partial,          \* partial transcription: "none" before the first request,
                        \* "running" while partialInProgress, else "done"
    s_received,         \* bytes of the stream handed to transform() so far
    s_stream,           \* the frames handed to processFrame, in order
    s_onsets,           \* the frames at which isSpeaking was set
    s_speechStarts,     \* the frames at which onSpeechStart was called
    s_flushed,          \* the buffers processFrame returned with speechEnded
    s_requests,         \* the utterances sent to transcriptions.create
    s_out,              \* the utterances whose text was enqueued
    s_failures,         \* transcription requests that failed
    s_listeners,        \* the listeners given to addSpeechStartListener
    s_listenerCalls     \* the calls of those listeners: <<frame, listener>>

sttVars == <<s_pc, s_vadSilenceFrames, s_minAudioDurationMs, s_vad, s_pendingBytes,
             s_combined, s_offset, s_partial, s_received, s_stream,
             s_onsets, s_speechStarts, s_flushed, s_requests, s_out,
             s_failures, s_listeners, s_listenerCalls>>

VARIABLES
    m_pc,               \* "new", "created" after createVoiceAgent, "built" after
                        \* process()
    m_middlewares,      \* the middleware option of createVoiceAgent
    m_hooks,            \* voiceHooks: the chain of every seam and the callbacks
                        \* the combined onSpeechStart and onAudioComplete hold
    m_pipeline,         \* the stages of the stream process() returned, in order
    m_item,             \* the stages the item in the pipeline has passed
    m_fired             \* the last firing of a combined event hook: the
                        \* callbacks it called, and whether it threw

middlewareVars == <<m_pc, m_middlewares, m_hooks, m_pipeline, m_item, m_fired>>

VARIABLES
    o_speak,            \* the stream of a speak() call on the OpenAI adapter
    h_speak             \* the stream of a speak() call on the Hume adapter

speakVars == <<o_speak, h_speak>>

VARIABLES
    c_pc,               \* "idle", "encoded" after linearToMulaw, "decoded"
    c_sample,           \* the 16-bit sample given to linearToMulaw
    c_mulaw,            \* the byte linearToMulaw returned
    c_linear,           \* MULAW_TO_LINEAR of that byte
    p_rate,             \* sourceSampleRate of the PcmToMulawTransform (0 before
                        \* the constructor)
    p_acc,              \* accumulator, in units of 1/targetSampleRate
    p_bytes,            \* the bytes of the PCM stream handed to transform()
    p_chunks,           \* the lengths of the chunks, in order
    p_out               \* the mu-law bytes enqueued, in order

mulawVars == <<c_pc, c_sample, c_mulaw, c_linear, p_rate, p_acc, p_bytes,
               p_chunks, p_out>>

VARIABLES
    w_pc,               \* the turn of the agent: "idle" or "streaming"
    w_turn,             \* the number of the turn
    w_hangUpTool,       \* has the turn seen the message of the hang_up tool
    w_forwarded,        \* the text segments the agent enqueued: the turn of each
    w_done,             \* how many of them the TTS stage has turned into audio
    w_signalled,        \* the turn onHangUp was called for, 0 before
    w_closedAt          \* w_done when closeConnection was called, -1 before

wiringVars == <<w_pc, w_turn, w_hangUpTool, w_forwarded, w_done, w_signalled,
                w_closedAt>>

VARIABLES
    l_pc,               \* _call: "idle", "reading" the response body, "returned"
    l_events,           \* the event lines of the response body: the event of each
    l_received,         \* how much of the body has been read, in units
    l_lastMessage,      \* lastMessage: the lines whose content was appended
    l_result            \* what _call returned

langVars == <<l_pc, l_events, l_received, l_lastMessage, l_result>>

VARIABLES
    g_pc,               \* "idle", "prompted" by a tool, "resuming" after a button
    g_prompt,           \* the tool that called interrupt(), with its arguments
    g_button,           \* the button pressed
    g_resume,           \* the value of command.resume
    g_log               \* the prompts answered: tool, button and what the tool did

hitlVars == <<g_pc, g_prompt, g_button, g_resume, g_log>>

vars == <<agentVars, openaiVars, humeVars, twilioVars, sttVars,
         middlewareVars,
         speakVars,
         mulawVars,
         wiringVars,
         langVars,
         hitlVars>>

(***************************************************************************)
(* Agent Turn Controller                                                   *)
(***************************************************************************)

\* Values an interrupt payload (typed unknown) can take, by what the code
\* distinguishes: undefined, a string, anything else.
AgentPayloads == {"undefined", "text", "object"}

\* The fields of a stream chunk the loop inspects. object is FALSE for a
\* chunk that is null or no object (it then has no fields).
ChunkContents == {"none", "empty", "text", "nonstring"}
ChunkNames == {"none", "other", "hang_up"}
AgentChunks ==
    [object : {TRUE}, content : ChunkContents, tool_call_id : BOOLEAN,
     name : ChunkNames]
        \cup {[object |-> FALSE, content |-> "none", tool_call_id |-> FALSE,
                name |-> "none"]}

\* agent.ts:173: the events of the stream. With streamMode 'messages' an
\* event is a [message, metadata] tuple; iterable is FALSE for an event that
\* is no iterable (null, undefined, a number, a plain object).
AgentEvents ==
    [iterable : {TRUE}, chunk : AgentChunks]
        \cup {[iterable |-> FALSE,
                chunk |-> [object |-> FALSE, content |-> "none",
                           tool_call_id |-> FALSE, name |-> "none"]]}

\* An event the loop knows no shape of: no tuple, or a tuple whose first
\* element is no object or has neither content nor name nor tool_call_id.
Unrecognized(event) ==
    \/ ~event.iterable
    \/ ~event.chunk.object
    \/ /\ event.chunk.content = "none"
       /\ event.chunk.name = "none"
       /\ ~event.chunk.tool_call_id

\* A task of the state query: "none" when it carries no interrupt, else the
\* value of its first interrupt.
AgentTasks == {"none"} \cup AgentPayloads

RECURSIVE SeqsUpTo(_, _)
SeqsUpTo(S, n) ==
    IF n = 0 THEN {<<>>}
    ELSE LET shorter == SeqsUpTo(S, n - 1)
         IN  shorter \cup {Append(s, x) : s \in {t \in shorter : Len(t) = n - 1}, x \in S}

\* A loop that enqueues the content of tool messages as well.
ForwardsTextOfTools(chunk) ==
    /\ chunk.object
    /\ chunk.content = "text"

\* agent.ts:178-188: the chunk's content is enqueued downstream.
ForwardsText(chunk) ==
    /\ chunk.object
    /\ chunk.content = "text"
    /\ ~chunk.tool_call_id

\* agent.ts:191-197: the chunk is the hang_up tool's.
IsHangUp(chunk) ==
    /\ chunk.object
    /\ chunk.name = "hang_up"

\* The same loop body with onHangUp called as soon as the tool chunk is seen.
LoopBodyLogEager(log, chunk) ==
    LET fwd == IF ForwardsText(chunk) THEN Append(log, "chunk") ELSE log
    IN  IF IsHangUp(chunk) THEN fwd \o <<"tool", "hangup">> ELSE fwd

\* agent.ts:173-198: what one iteration of the loop does: the content is
\* enqueued downstream ("toolContent" when it is that of a message with a
\* tool_call_id, else "chunk"), the hang_up tool is logged to the console.
LoopBodyLog(log, chunk) ==
    LET fwd == IF ForwardsText(chunk)
               THEN Append(log, IF chunk.tool_call_id THEN "toolContent" ELSE "chunk")
               ELSE log
    IN  IF IsHangUp(chunk) THEN Append(fwd, "tool") ELSE fwd

\* agent.ts:200-205: after the loop, the deferred onHangUp.
AfterLoopLog(log, reason) ==
    IF reason # "null" THEN Append(log, "hangup") ELSE log

\* agent.ts:212-226: the interrupts of the tasks, in order.
RECURSIVE TasksLog(_, _)
TasksLog(log, tasks) ==
    IF tasks = <<>> THEN log
    ELSE LET t == Head(tasks)
             noted == IF t = "none" THEN log ELSE Append(log, "onInterrupt")
             said == IF t = "text" THEN Append(noted, "prompt") ELSE noted
         IN  TasksLog(said, Tail(tasks))

RECURSIVE TasksPending(_, _)
TasksPending(pending, tasks) ==
    IF tasks = <<>> THEN pending
    ELSE TasksPending(IF Head(tasks) = "none" THEN pending ELSE Head(tasks),
                      Tail(tasks))

TasksReport(tasks) == \E i \in 1..Len(tasks) : tasks[i] # "none"

\* A TransformStream that takes the next chunk while a transform() is running.
TransformReadyConcurrent == a_pc # "errored"

\* agent.ts:149-151: a TransformStream calls transform() for the next chunk
\* only once the promise of the previous call has resolved, and never again
\* once a call has rejected.
TransformReady == a_pc = "idle"

\* agent.ts:151-168: transform(text) up to the await of agent.stream().
AgentTransformBegin ==
    /\ TransformReady
    /\ IF a_stopped
       THEN UNCHANGED <<a_pending, a_pc, a_hangup, a_nEvents, a_log, a_call>>
       ELSE /\ a_call' = [kind |-> IF a_pending # "undefined"
                                   THEN "resume" ELSE "message",
                          afterReport |-> a_reported,
                          busy |-> a_pc # "idle"]
            /\ a_pending' = "undefined"
            /\ a_pc' = "stream"
            /\ a_hangup' = "null"
            /\ a_nEvents' = 0
            /\ a_log' = <<>>
    /\ UNCHANGED <<a_stopped, a_reported, a_faults>>
    /\ UNCHANGED a_shape
    /\ UNCHANGED <<openaiVars, humeVars, twilioVars, sttVars, middlewareVars, speakVars, mulawVars, wiringVars, langVars, hitlVars>>

\* agent.ts:165-171: agent.stream() resolves.
AgentStreamOpened ==
    /\ a_pc = "stream"
    /\ a_pc' = "loop"
    /\ UNCHANGED <<a_stopped, a_pending, a_hangup, a_nEvents, a_log, a_call,
                   a_reported, a_faults>>
    /\ UNCHANGED a_shape
    /\ UNCHANGED <<openaiVars, humeVars, twilioVars, sttVars, middlewareVars, speakVars, mulawVars, wiringVars, langVars, hitlVars>>

\* agent.ts:200-210: the loop has exited; onHangUp, then the await of getState().
AfterLoop ==
    /\ a_log' = AfterLoopLog(a_log, a_hangup)
    /\ a_pc' = "query"

\* agent.ts:173-198: the stream yields an event. `const [chunk] of
\* graphStream` destructures it before anything else: an event that is no
\* iterable raises a TypeError, which nothing in transform() catches.
AgentStreamChunk ==
    /\ a_pc = "loop"
    /\ a_nEvents < MaxEvents
    /\ \E event \in AgentEvents :
          LET chunk == event.chunk
          IN  /\ a_nEvents' = a_nEvents + 1
              /\ a_shape' = IF ~Unrecognized(event) THEN a_shape
                            ELSE IF event.iterable THEN "ignored" ELSE "threw"
              /\ IF ~event.iterable
                 THEN /\ a_pc' = "errored"
                      /\ UNCHANGED <<a_log, a_hangup>>
                 ELSE IF a_stopped
                 THEN /\ AfterLoop
                      /\ UNCHANGED a_hangup
                 ELSE /\ a_log' = LoopBodyLog(a_log, chunk)
                      /\ a_hangup' = IF IsHangUp(chunk) THEN chunk.content
                                     ELSE a_hangup
                      /\ UNCHANGED a_pc
    /\ UNCHANGED <<a_stopped, a_pending, a_call, a_reported, a_faults>>
    /\ UNCHANGED <<openaiVars, humeVars, twilioVars, sttVars, middlewareVars, speakVars, mulawVars, wiringVars, langVars, hitlVars>>

\* agent.ts:173, 200-210: the stream ends.
AgentStreamEnd ==
    /\ a_pc = "loop"
    /\ AfterLoop
    /\ UNCHANGED <<a_stopped, a_pending, a_hangup, a_nEvents, a_call,
                   a_reported, a_faults>>
    /\ UNCHANGED a_shape
    /\ UNCHANGED <<openaiVars, humeVars, twilioVars, sttVars, middlewareVars, speakVars, mulawVars, wiringVars, langVars, hitlVars>>

\* agent.ts:207-227: getState() resolves.
AgentStateResult ==
    /\ a_pc = "query"
    /\ \E tasks \in SeqsUpTo(AgentTasks, MaxTasks) :
          /\ a_pending' = TasksPending(a_pending, tasks)
          /\ a_log' = TasksLog(a_log, tasks)
          /\ a_reported' = TasksReport(tasks)
    /\ a_pc' = "idle"
    /\ UNCHANGED <<a_stopped, a_hangup, a_nEvents, a_call, a_faults>>
    /\ UNCHANGED a_shape
    /\ UNCHANGED <<openaiVars, humeVars, twilioVars, sttVars, middlewareVars, speakVars, mulawVars, wiringVars, langVars, hitlVars>>

\* agent.ts:165, 173, 208: the agent collaborator rejects or throws. Nothing
\* in transform() catches it, so the call rejects and the TransformStream is
\* errored.
AgentFault ==
    /\ a_pc \in {"stream", "loop", "query"}
    /\ a_pc' = "errored"
    /\ a_faults' = a_faults + 1
    /\ UNCHANGED <<a_stopped, a_pending, a_hangup, a_nEvents, a_log, a_call,
                   a_reported>>
    /\ UNCHANGED a_shape
    /\ UNCHANGED <<openaiVars, humeVars, twilioVars, sttVars, middlewareVars, speakVars, mulawVars, wiringVars, langVars, hitlVars>>

\* agent.ts:272-276: stop().
AgentStop ==
    /\ ~a_stopped
    /\ a_stopped' = TRUE
    /\ UNCHANGED <<a_pending, a_pc, a_hangup, a_nEvents, a_log, a_call,
                   a_reported, a_faults>>
    /\ UNCHANGED a_shape
    /\ UNCHANGED <<openaiVars, humeVars, twilioVars, sttVars, middlewareVars, speakVars, mulawVars, wiringVars, langVars, hitlVars>>

AgentInit ==
    /\ a_stopped = FALSE
    /\ a_pending = "undefined"
    /\ a_pc = "idle"
    /\ a_hangup = "null"
    /\ a_nEvents = 0
    /\ a_log = <<>>
    /\ a_call = [kind |-> "none", afterReport |-> FALSE, busy |-> FALSE]
    /\ a_reported = FALSE
    /\ a_faults = 0
    /\ a_shape = "none"

AgentNext ==
    \/ AgentTransformBegin
    \/ AgentStreamOpened
    \/ AgentStreamChunk
    \/ AgentStreamEnd
    \/ AgentStateResult
    \/ AgentFault
    \/ AgentStop

(***************************************************************************)
(* OpenAI text-to-speech adapter                                           *)
(***************************************************************************)

\* o_results records how a segment ended: "dropped" at the entry check,
\* "interrupted" in the chunk loop, "complete" when fully enqueued, "failed"
\* on a provider error.

\* tts.ts:63-65: every interrupt() schedules its own timer.
TimerSet(timers) == Append(timers, CooldownTicks)

TimerDue(timers) == timers # <<>> /\ Head(timers) = 0

TimersTick(timers) == [i \in 1..Len(timers) |-> timers[i] - 1]

\* The chunks of segment seg, as enqueued with the cut flag cut.
RECURSIVE ChunksOf(_, _, _)
ChunksOf(seg, n, cut) ==
    IF n = 0 THEN <<>>
    ELSE Append(ChunksOf(seg, n - 1, cut), [seg |-> seg, late |-> cut])

\* tts.ts:60-66: interrupt().
OpenAIInterrupt ==
    /\ o_interrupts < MaxInterrupts
    /\ o_interrupts' = o_interrupts + 1
    /\ o_isInterrupted' = TRUE
    /\ o_timers' = TimerSet(o_timers)
    /\ o_cut' = (o_cut \/ o_pc # "idle")
    /\ o_busyInterrupts' = o_busyInterrupts + (IF o_pc # "idle" THEN 1 ELSE 0)
    /\ o_repeated' = o_repeated + (IF o_isInterrupted THEN 1 ELSE 0)
    /\ UNCHANGED <<o_pc, o_segs, o_out, o_results>>
    /\ UNCHANGED <<agentVars, humeVars, twilioVars, sttVars, middlewareVars, speakVars, mulawVars, wiringVars, langVars, hitlVars>>

\* tts.ts:63-65: the timer of an interrupt() fires.
OpenAITimerFires ==
    /\ TimerDue(o_timers)
    /\ o_timers' = Tail(o_timers)
    /\ o_isInterrupted' = FALSE
    /\ UNCHANGED <<o_pc, o_segs, o_out, o_results, o_interrupts, o_cut,
                   o_busyInterrupts, o_repeated>>
    /\ UNCHANGED <<agentVars, humeVars, twilioVars, sttVars, middlewareVars, speakVars, mulawVars, wiringVars, langVars, hitlVars>>

\* Time passes; a due timer fires first.
OpenAITick ==
    /\ o_timers # <<>>
    /\ ~TimerDue(o_timers)
    /\ o_timers' = TimersTick(o_timers)
    /\ UNCHANGED <<o_isInterrupted, o_pc, o_segs, o_out, o_results, o_interrupts,
                   o_cut, o_busyInterrupts, o_repeated>>
    /\ UNCHANGED <<agentVars, humeVars, twilioVars, sttVars, middlewareVars, speakVars, mulawVars, wiringVars, langVars, hitlVars>>

\* tts.ts:85-100: transform(text) up to the await of speech.create().
OpenAITransformBegin ==
    /\ o_pc = "idle"
    /\ o_segs < MaxSegments
    /\ o_segs' = o_segs + 1
    /\ o_cut' = FALSE
    /\ IF o_isInterrupted
       THEN /\ o_results' = Append(o_results, "dropped")
            /\ UNCHANGED o_pc
       ELSE /\ o_pc' = "create"
            /\ UNCHANGED o_results
    /\ UNCHANGED <<o_isInterrupted, o_timers, o_out, o_interrupts, o_busyInterrupts, o_repeated>>
    /\ UNCHANGED <<agentVars, humeVars, twilioVars, sttVars, middlewareVars, speakVars, mulawVars, wiringVars, langVars, hitlVars>>

\* tts.ts:95-102: speech.create() resolves; the await of arrayBuffer().
OpenAIResponse ==
    /\ o_pc = "create"
    /\ o_pc' = "read"
    /\ UNCHANGED <<o_isInterrupted, o_timers, o_segs, o_out, o_results,
                   o_interrupts, o_cut, o_busyInterrupts, o_repeated>>
    /\ UNCHANGED <<agentVars, humeVars, twilioVars, sttVars, middlewareVars, speakVars, mulawVars, wiringVars, langVars, hitlVars>>

\* tts.ts:113-125: the chunk loop over a buffer of n chunks. It has no await:
\* the flag it reads cannot change while it runs.
OpenAIStreamChunks(n) ==
    IF n > 0 /\ o_isInterrupted
    THEN /\ o_results' = Append(o_results, "interrupted")
         /\ UNCHANGED o_out
    ELSE /\ o_results' = Append(o_results, "complete")
         /\ o_out' = o_out \o ChunksOf(o_segs, n, o_cut)

\* tts.ts:102-125: arrayBuffer() resolves; resample, then the chunk loop.
OpenAIAudio ==
    /\ o_pc = "read"
    /\ \E n \in 0..MaxChunks : OpenAIStreamChunks(n)
    /\ o_pc' = "idle"
    /\ UNCHANGED <<o_isInterrupted, o_timers, o_segs, o_interrupts, o_cut,
                   o_busyInterrupts, o_repeated>>
    /\ UNCHANGED <<agentVars, humeVars, twilioVars, sttVars, middlewareVars, speakVars, mulawVars, wiringVars, langVars, hitlVars>>

\* tts.ts:126-128: the provider call rejects; the error is logged.
OpenAIError ==
    /\ o_pc \in {"create", "read"}
    /\ o_pc' = "idle"
    /\ o_results' = Append(o_results, "failed")
    /\ UNCHANGED <<o_isInterrupted, o_timers, o_segs, o_out, o_interrupts, o_cut,
                   o_busyInterrupts, o_repeated>>
    /\ UNCHANGED <<agentVars, humeVars, twilioVars, sttVars, middlewareVars, speakVars, mulawVars, wiringVars, langVars, hitlVars>>

OpenAIInit ==
    /\ o_isInterrupted = FALSE
    /\ o_timers = <<>>
    /\ o_pc = "idle"
    /\ o_segs = 0
    /\ o_out = <<>>
    /\ o_results = <<>>
    /\ o_interrupts = 0
    /\ o_cut = FALSE
    /\ o_busyInterrupts = 0
    /\ o_repeated = 0

OpenAINext ==
    \/ OpenAIInterrupt
    \/ OpenAITimerFires
    \/ OpenAITick
    \/ OpenAITransformBegin
    \/ OpenAIResponse
    \/ OpenAIAudio
    \/ OpenAIError

(***************************************************************************)
(* Hume text-to-speech adapter                                             *)
(***************************************************************************)

Sockets == 1..MaxSegments

\* The state of a socket is its readyState ("connecting", "open", "closing",
\* "closed"), "failed" for one that closed before it opened and "none" for
\* one not yet created. stale is set for a socket that was created before an
\* interruptTTS() that took effect.

\* The promise createConnection() returned for socket s.
PromiseOf(s) ==
    CASE h_sock[s].state = "connecting" -> "pending"
      [] h_sock[s].state = "failed" -> "rejected"
      [] OTHER -> "resolved"

\* tts.ts:205: ws && ws.readyState === WebSocket.OPEN
WsOpen(ws, sock) == ws # 0 /\ sock[ws].state = "open"

\* No transform() call is running and no socket has audio on its way.
HumeIdle ==
    /\ h_pc = "idle"
    /\ \A s \in Sockets : h_sock[s].inflight = <<>>

\* The audio messages the provider sends for segment seg.
RECURSIVE AudioOf(_, _)
AudioOf(seg, n) == IF n = 0 THEN <<>> ELSE Append(AudioOf(seg, n - 1), seg)

\* tts.ts:229-231: the text and the flush are sent on socket s; the provider
\* answers with the audio of the segment.
SendText(sock, s, seg) ==
    [sock EXCEPT ![s].inflight = @ \o AudioOf(seg, AudioPerSegment)]

\* tts.ts:146-149 and 195-198: closeResolve, when set, resolves closePromise
\* and is cleared.
CloseResolved(closePromise) ==
    IF closePromise = "pending" THEN "resolved" ELSE closePromise

\* A transform() that looks at the interrupt flag alone.
TransformReturnsEarlyOnInterrupt == h_isInterrupted

\* tts.ts:224: transform() returns at once while shutting down or interrupted.
TransformReturnsEarly == h_isShuttingDown \/ h_isInterrupted

\* An interruptTTS() that goes on whatever the flag says.
InterruptReturnsEarlyNever == FALSE

\* tts.ts:131: interruptTTS() returns at once inside a cooldown.
InterruptReturnsEarly == h_isInterrupted

\* tts.ts:130-156: interruptTTS().
HumeInterrupt ==
    /\ h_interrupts < MaxInterrupts
    /\ h_interrupts' = h_interrupts + 1
    /\ h_busyInterrupts' = h_busyInterrupts + (IF HumeIdle THEN 0 ELSE 1)
    /\ h_repeated' = h_repeated + (IF h_isInterrupted THEN 1 ELSE 0)
    /\ IF InterruptReturnsEarly
       THEN UNCHANGED <<h_isInterrupted, h_sock, h_ws, h_connectionPromise,
                        h_onInterrupt, h_timers, h_cut, h_closePromise>>
       ELSE /\ h_isInterrupted' = TRUE
            /\ h_closePromise' = CloseResolved(h_closePromise)
            /\ h_sock' = [s \in Sockets |->
                            [h_sock[s] EXCEPT
                               !.state = IF s = h_ws /\ WsOpen(h_ws, h_sock)
                                         THEN "closing" ELSE @,
                               !.stale = h_sock[s].state # "none"]]
            /\ h_ws' = 0
            /\ h_connectionPromise' = 0
            /\ h_onInterrupt' = h_onInterrupt + 1
            /\ h_timers' = TimerSet(h_timers)
            /\ h_cut' = 1..h_segs
    /\ h_repeatEffect' =
          (h_repeatEffect \/
             (h_isInterrupted /\
                <<h_isInterrupted', h_ws', h_connectionPromise', h_sock', h_timers'>> #
                <<h_isInterrupted, h_ws, h_connectionPromise, h_sock, h_timers>>))
    /\ UNCHANGED <<h_pc, h_nsock, h_segs, h_out, h_results, h_audioComplete>>
    /\ UNCHANGED <<h_isShuttingDown, h_flush, h_flushTimer>>
    /\ UNCHANGED <<agentVars, openaiVars, twilioVars, sttVars, middlewareVars, speakVars, mulawVars, wiringVars, langVars, hitlVars>>

\* tts.ts:153-155: the timer of an interrupt fires.
HumeTimerFires ==
    /\ TimerDue(h_timers)
    /\ h_timers' = Tail(h_timers)
    /\ h_isInterrupted' = FALSE
    /\ UNCHANGED <<h_ws, h_connectionPromise, h_pc, h_sock, h_nsock, h_segs, h_out,
                   h_results, h_audioComplete, h_onInterrupt, h_interrupts, h_cut,
                   h_busyInterrupts, h_repeated, h_repeatEffect>>
    /\ UNCHANGED <<h_isShuttingDown, h_closePromise, h_flush, h_flushTimer>>
    /\ UNCHANGED <<agentVars, openaiVars, twilioVars, sttVars, middlewareVars, speakVars, mulawVars, wiringVars, langVars, hitlVars>>

\* Time passes; a due timer fires first.
HumeTick ==
    /\ h_timers # <<>>
    /\ ~TimerDue(h_timers)
    /\ h_timers' = TimersTick(h_timers)
    /\ UNCHANGED <<h_ws, h_connectionPromise, h_isInterrupted, h_pc, h_sock, h_nsock,
                   h_segs, h_out, h_results, h_audioComplete, h_onInterrupt,
                   h_interrupts, h_cut, h_busyInterrupts, h_repeated, h_repeatEffect>>
    /\ UNCHANGED <<h_isShuttingDown, h_closePromise, h_flush, h_flushTimer>>
    /\ UNCHANGED <<agentVars, openaiVars, twilioVars, sttVars, middlewareVars, speakVars, mulawVars, wiringVars, langVars, hitlVars>>

\* tts.ts:223-238 with ensureConnection (204-216) and createConnection
\* (158-166): transform(text) up to the await of a new connection, or to its
\* end when nothing is awaited. A stored connectionPromise has settled by the
\* time the next transform() runs, so awaiting it does not suspend the call.
HumeTransformBegin ==
    /\ h_pc = "idle"
    /\ h_segs < MaxSegments
    /\ h_segs' = h_segs + 1
    /\ IF TransformReturnsEarly
       THEN /\ h_results' = Append(h_results, "dropped")
            /\ UNCHANGED <<h_sock, h_nsock, h_connectionPromise, h_pc, h_closePromise>>
       ELSE IF WsOpen(h_ws, h_sock)
       THEN /\ h_sock' = SendText(h_sock, h_ws, h_segs + 1)
            /\ h_results' = Append(h_results, "sent")
            /\ UNCHANGED <<h_nsock, h_connectionPromise, h_pc, h_closePromise>>
       ELSE IF h_connectionPromise # 0 /\ PromiseOf(h_connectionPromise) = "rejected"
       THEN /\ h_results' = Append(h_results, "error")
            /\ UNCHANGED <<h_sock, h_nsock, h_connectionPromise, h_pc, h_closePromise>>
       ELSE /\ h_nsock' = h_nsock + 1
            /\ h_sock' = [h_sock EXCEPT ![h_nsock + 1].state = "connecting"]
            /\ h_connectionPromise' = h_nsock + 1
            /\ h_closePromise' = "pending"
            /\ h_pc' = "connecting"
            /\ UNCHANGED h_results
    /\ UNCHANGED <<h_ws, h_isInterrupted, h_timers, h_out, h_audioComplete,
                   h_onInterrupt, h_interrupts, h_cut, h_busyInterrupts, h_repeated, h_repeatEffect>>
    /\ UNCHANGED <<h_isShuttingDown, h_flush, h_flushTimer>>
    /\ UNCHANGED <<agentVars, openaiVars, twilioVars, sttVars, middlewareVars, speakVars, mulawVars, wiringVars, langVars, hitlVars>>

\* tts.ts:167-171, then 229-234: the open handler sets ws and resolves the
\* promise; the transform() call that awaits it goes on and sends the text.
HumeSocketOpens ==
    \E s \in Sockets :
        /\ h_sock[s].state = "connecting"
        /\ h_ws' = s
        /\ h_sock' = SendText([h_sock EXCEPT ![s].state = "open"], s, h_segs)
        /\ h_results' = Append(h_results, "sent")
        /\ h_pc' = "idle"
        /\ UNCHANGED <<h_connectionPromise, h_isInterrupted, h_timers, h_nsock,
                       h_segs, h_out, h_audioComplete, h_onInterrupt, h_interrupts,
                       h_cut, h_busyInterrupts, h_repeated, h_repeatEffect>>
        /\ UNCHANGED <<h_isShuttingDown, h_closePromise, h_flush, h_flushTimer>>
        /\ UNCHANGED <<agentVars, openaiVars, twilioVars, sttVars, middlewareVars, speakVars, mulawVars, wiringVars, langVars, hitlVars>>

\* tts.ts:180-200, then 235-237: the connection attempt fails. The error
\* handler rejects the promise, which the awaiting transform() call catches;
\* the WebSocket then emits close, whose handler runs as for any close.
HumeSocketFails ==
    \E s \in Sockets :
        /\ h_sock[s].state = "connecting"
        /\ h_sock' = [h_sock EXCEPT ![s].state = "failed"]
        /\ h_results' = Append(h_results, "error")
        /\ h_pc' = "idle"
        /\ h_audioComplete' = h_audioComplete + 1
        /\ UNCHANGED <<h_ws, h_connectionPromise, h_isInterrupted, h_timers,
                       h_nsock, h_segs, h_out, h_onInterrupt, h_interrupts, h_cut,
                       h_busyInterrupts, h_repeated, h_repeatEffect>>
        /\ h_closePromise' = CloseResolved(h_closePromise)
        /\ UNCHANGED <<h_isShuttingDown, h_flush, h_flushTimer>>
        /\ UNCHANGED <<agentVars, openaiVars, twilioVars, sttVars, middlewareVars, speakVars, mulawVars, wiringVars, langVars, hitlVars>>

\* tts.ts:173-178: an audio message arrives on a socket that is open or on
\* its way to closed. The handler enqueues it whenever the stream's
\* controller is set, which start() did before any transform().
HumeAudioMessage ==
    \E s \in Sockets :
        /\ h_sock[s].state \in {"open", "closing"}
        /\ h_sock[s].inflight # <<>>
        /\ h_sock' = [h_sock EXCEPT ![s].inflight = Tail(@)]
        /\ h_out' = Append(h_out, [seg |-> Head(h_sock[s].inflight),
                                   late |-> Head(h_sock[s].inflight) \in h_cut])
        /\ UNCHANGED <<h_ws, h_connectionPromise, h_isInterrupted, h_timers, h_pc,
                       h_nsock, h_segs, h_results, h_audioComplete, h_onInterrupt,
                       h_interrupts, h_cut, h_busyInterrupts, h_repeated, h_repeatEffect>>
        /\ UNCHANGED <<h_isShuttingDown, h_closePromise, h_flush, h_flushTimer>>
        /\ UNCHANGED <<agentVars, openaiVars, twilioVars, sttVars, middlewareVars, speakVars, mulawVars, wiringVars, langVars, hitlVars>>

\* tts.ts:189-200: a socket closes, by the provider or after ws.close().
HumeSocketCloses ==
    \E s \in Sockets :
        /\ h_sock[s].state \in {"open", "closing"}
        /\ h_sock' = [h_sock EXCEPT ![s] = [state |-> "closed", inflight |-> <<>>,
                                         stale |-> @.stale]]
        /\ IF h_ws = s
           THEN h_ws' = 0 /\ h_connectionPromise' = 0
           ELSE UNCHANGED <<h_ws, h_connectionPromise>>
        /\ h_audioComplete' = h_audioComplete + 1
        /\ h_closePromise' = CloseResolved(h_closePromise)
        /\ UNCHANGED <<h_isInterrupted, h_timers, h_pc, h_nsock, h_segs, h_out,
                       h_results, h_onInterrupt, h_interrupts, h_cut,
                       h_busyInterrupts, h_repeated, h_repeatEffect>>
        /\ UNCHANGED <<h_isShuttingDown, h_flush, h_flushTimer>>
        /\ UNCHANGED <<agentVars, openaiVars, twilioVars, sttVars, middlewareVars, speakVars, mulawVars, wiringVars, langVars, hitlVars>>

\* tts.ts:256-263: the rest of flush(): ws.close() inside a try, which also
\* swallows the TypeError of a ws that became null, then both references are
\* cleared.
FlushCloses ==
    /\ h_sock' = [s \in Sockets |->
                    [h_sock[s] EXCEPT
                       !.state = IF s = h_ws /\ WsOpen(h_ws, h_sock)
                                 THEN "closing" ELSE @]]
    /\ h_ws' = 0
    /\ h_connectionPromise' = 0
    /\ h_flush' = "done"

\* tts.ts:240-254 (and 256-263 when nothing is awaited): flush(), which the
\* stream calls once, after the last transform() has settled. A closePromise
\* that is resolved already settles the race at once.
HumeFlush ==
    /\ h_flush = "none"
    /\ h_pc = "idle"
    /\ h_segs > 0
    /\ h_isShuttingDown' = TRUE
    /\ IF WsOpen(h_ws, h_sock)
       THEN /\ h_flushTimer' = "pending"
            /\ IF h_closePromise = "pending"
               THEN /\ h_flush' = "awaiting"
                    /\ UNCHANGED <<h_sock, h_ws, h_connectionPromise>>
               ELSE FlushCloses
       ELSE /\ h_connectionPromise' = 0
            /\ h_flush' = "done"
            /\ UNCHANGED <<h_sock, h_ws, h_flushTimer>>
    /\ UNCHANGED <<h_isInterrupted, h_timers, h_pc, h_nsock, h_segs, h_out,
                   h_results, h_audioComplete, h_onInterrupt, h_interrupts, h_cut,
                   h_busyInterrupts, h_repeated, h_repeatEffect, h_closePromise>>
    /\ UNCHANGED <<agentVars, openaiVars, twilioVars, sttVars, middlewareVars, speakVars, mulawVars, wiringVars, langVars, hitlVars>>

\* A timer of flush() that never resolves its promise.
FlushTimerResolvesNever == FALSE

\* tts.ts:248-251: the 5 s timer resolves timeoutPromise.
FlushTimerResolves == h_flushTimer = "fired"

\* tts.ts:247-252: the 5 s timer of flush() fires.
HumeFlushTimeout ==
    /\ h_flushTimer = "pending"
    /\ h_flushTimer' = "fired"
    /\ UNCHANGED <<h_ws, h_connectionPromise, h_isInterrupted, h_timers, h_pc, h_sock,
                   h_nsock, h_segs, h_out, h_results, h_audioComplete, h_onInterrupt,
                   h_interrupts, h_cut, h_busyInterrupts, h_repeated, h_repeatEffect,
                   h_isShuttingDown, h_closePromise, h_flush>>
    /\ UNCHANGED <<agentVars, openaiVars, twilioVars, sttVars, middlewareVars, speakVars, mulawVars, wiringVars, langVars, hitlVars>>

\* tts.ts:254-263: the race of flush() has settled, by closePromise or by
\* the timer, and flush() runs to its end.
HumeFlushResumes ==
    /\ h_flush = "awaiting"
    /\ h_closePromise = "resolved" \/ FlushTimerResolves
    /\ FlushCloses
    /\ UNCHANGED <<h_isInterrupted, h_timers, h_pc, h_nsock, h_segs, h_out,
                   h_results, h_audioComplete, h_onInterrupt, h_interrupts, h_cut,
                   h_busyInterrupts, h_repeated, h_repeatEffect,
                   h_isShuttingDown, h_closePromise, h_flushTimer>>
    /\ UNCHANGED <<agentVars, openaiVars, twilioVars, sttVars, middlewareVars, speakVars, mulawVars, wiringVars, langVars, hitlVars>>

HumeInit ==
    /\ h_ws = 0
    /\ h_connectionPromise = 0
    /\ h_isInterrupted = FALSE
    /\ h_timers = <<>>
    /\ h_pc = "idle"
    /\ h_sock = [s \in Sockets |-> [state |-> "none", inflight |-> <<>>,
                                    stale |-> FALSE]]
    /\ h_nsock = 0
    /\ h_segs = 0
    /\ h_out = <<>>
    /\ h_results = <<>>
    /\ h_audioComplete = 0
    /\ h_onInterrupt = 0
    /\ h_interrupts = 0
    /\ h_cut = {}
    /\ h_busyInterrupts = 0
    /\ h_repeated = 0
    /\ h_repeatEffect = FALSE
    /\ h_isShuttingDown = FALSE
    /\ h_closePromise = "null"
    /\ h_flush = "none"
    /\ h_flushTimer = "none"

HumeNext ==
    \/ HumeInterrupt
    \/ HumeTimerFires
    \/ HumeTick
    \/ HumeTransformBegin
    \/ HumeSocketOpens
    \/ HumeSocketFails
    \/ HumeAudioMessage
    \/ HumeSocketCloses

\* The adapter with the end of its input: one interrupt at most, flush() and
\* its timer.
HumeFlushNext ==
    \/ HumeNext /\ h_interrupts' <= 1
    \/ HumeFlush
    \/ HumeFlushTimeout
    \/ HumeFlushResumes

(***************************************************************************)
(* Voice sessions of the career coach (packages/twilio/src/index.ts)       *)
(***************************************************************************)

\* index.ts:812-856: createCareerCoachVoiceAgent(params). The callbacks it
\* builds close over the parameters of this session and over the variable
\* pendingHangUp of the module (index.ts:702).
TwilioCreateSession ==
    /\ Len(t_sessions) < MaxSessions
    /\ \E given \in BOOLEAN :
          t_sessions' = Append(t_sessions, [closeConnection |-> given])
    /\ UNCHANGED <<t_pendingHangUp, t_closes, t_hangups>>
    /\ UNCHANGED <<agentVars, openaiVars, humeVars, sttVars, middlewareVars, speakVars, mulawVars, langVars, hitlVars>>

\* The reason of a hang-up is the content of the hang_up tool message: a
\* string, possibly the empty one.
HangUpReasons == {"", "goodbye"}

\* index.ts:702: let pendingHangUp: string | null = null
NoHangUp == [session |-> 0, reason |-> ""]

\* index.ts:831: the truth value of pendingHangUp; null and "" are falsy.
Truthy(pending) == pending.session # 0 /\ pending.reason # ""

\* index.ts:851-854: the agent of session s calls onHangUp(reason).
TwilioOnHangUp(s) ==
    /\ t_hangups < MaxHangUps
    /\ t_hangups' = t_hangups + 1
    /\ \E reason \in HangUpReasons :
          t_pendingHangUp' = [session |-> s, reason |-> reason]
    /\ UNCHANGED <<t_sessions, t_closes>>
    /\ UNCHANGED <<agentVars, openaiVars, humeVars, sttVars, middlewareVars, speakVars, mulawVars, langVars, hitlVars>>

\* index.ts:830-835: the TTS adapter of session s calls onAudioComplete.
TwilioOnAudioComplete(s) ==
    /\ IF Truthy(t_pendingHangUp) /\ t_sessions[s].closeConnection
       THEN /\ t_closes' = Append(t_closes, [session |-> s,
                                             reasonOf |-> t_pendingHangUp.session])
            /\ t_pendingHangUp' = NoHangUp
       ELSE UNCHANGED <<t_closes, t_pendingHangUp>>
    /\ UNCHANGED <<t_sessions, t_hangups>>
    /\ UNCHANGED <<agentVars, openaiVars, humeVars, sttVars, middlewareVars, speakVars, mulawVars, langVars, hitlVars>>

TwilioInit ==
    /\ t_sessions = <<>>
    /\ t_pendingHangUp = NoHangUp
    /\ t_closes = <<>>
    /\ t_hangups = 0

TwilioNext ==
    \/ TwilioCreateSession /\ UNCHANGED wiringVars
    \/ \E s \in 1..Len(t_sessions) : TwilioOnHangUp(s) /\ UNCHANGED wiringVars
    \/ \E s \in 1..Len(t_sessions) : TwilioOnAudioComplete(s) /\ UNCHANGED wiringVars

(***************************************************************************)
(* A session of the career coach at work: the turns of its agent, the      *)
(* text-to-speech stage behind it and the callbacks of the session         *)
(***************************************************************************)

MaxTurns == 2

MaxTexts == 3

\* The turns followed are those of the first session.

\* agent.ts:151-172: the agent takes the next input and starts a turn.
WiringTurnBegins ==
    /\ Len(t_sessions) >= 1
    /\ w_closedAt = -1
    /\ w_pc = "idle"
    /\ w_turn < MaxTurns
    /\ w_pc' = "streaming"
    /\ w_turn' = w_turn + 1
    /\ w_hangUpTool' = FALSE
    /\ UNCHANGED <<w_forwarded, w_done, w_signalled, w_closedAt>>
    /\ UNCHANGED twilioVars
    /\ UNCHANGED <<agentVars, openaiVars, humeVars, sttVars, middlewareVars, speakVars, mulawVars, langVars, hitlVars>>

\* agent.ts:176-186: a content chunk of the turn is enqueued for the
\* text-to-speech stage.
WiringText ==
    /\ w_closedAt = -1
    /\ w_pc = "streaming"
    /\ Len(w_forwarded) < MaxTexts
    /\ w_forwarded' = Append(w_forwarded, w_turn)
    /\ UNCHANGED <<w_pc, w_turn, w_hangUpTool, w_done, w_signalled, w_closedAt>>
    /\ UNCHANGED twilioVars
    /\ UNCHANGED <<agentVars, openaiVars, humeVars, sttVars, middlewareVars, speakVars, mulawVars, langVars, hitlVars>>

\* agent.ts:190-196: the message of the hang_up tool is seen; its content is
\* kept in pendingHangUpReason.
WiringHangUpTool ==
    /\ w_closedAt = -1
    /\ w_pc = "streaming"
    /\ ~w_hangUpTool
    /\ w_hangUpTool' = TRUE
    /\ UNCHANGED <<w_pc, w_turn, w_forwarded, w_done, w_signalled, w_closedAt>>
    /\ UNCHANGED twilioVars
    /\ UNCHANGED <<agentVars, openaiVars, humeVars, sttVars, middlewareVars, speakVars, mulawVars, langVars, hitlVars>>

\* agent.ts:200-205: the stream of the turn has ended; onHangUp is called
\* when the hang_up tool was seen (index.ts:851-854).
WiringTurnEnds ==
    /\ w_closedAt = -1
    /\ w_pc = "streaming"
    /\ w_pc' = "idle"
    /\ IF w_hangUpTool
       THEN /\ TwilioOnHangUp(1)
            /\ w_signalled' = w_turn
       ELSE /\ UNCHANGED twilioVars
            /\ UNCHANGED <<agentVars, openaiVars, humeVars, sttVars, middlewareVars, speakVars, mulawVars, langVars, hitlVars>>
            /\ UNCHANGED w_signalled
    /\ UNCHANGED <<w_turn, w_hangUpTool, w_forwarded, w_done, w_closedAt>>

\* provider/openai/src/tts.ts:104-125, then index.ts:830-835: the stage has
\* enqueued the audio of the next text segment and calls onAudioComplete.
WiringAudioComplete ==
    /\ Len(t_sessions) >= 1
    /\ w_closedAt = -1
    /\ w_done < Len(w_forwarded)
    /\ w_done' = w_done + 1
    /\ TwilioOnAudioComplete(1)
    /\ w_closedAt' = IF t_closes' # t_closes THEN w_done + 1 ELSE w_closedAt
    /\ UNCHANGED <<w_pc, w_turn, w_hangUpTool, w_forwarded, w_signalled>>

WiringInit ==
    /\ w_pc = "idle"
    /\ w_turn = 0
    /\ w_hangUpTool = FALSE
    /\ w_forwarded = <<>>
    /\ w_done = 0
    /\ w_signalled = 0
    /\ w_closedAt = -1

WiringNext ==
    \/ TwilioCreateSession /\ UNCHANGED wiringVars
    \/ WiringTurnBegins
    \/ WiringText
    \/ WiringHangUpTool
    \/ WiringTurnEnds
    \/ WiringAudioComplete

(***************************************************************************)
(* LangGraphModel._call (packages/twilio/src/index.ts:897-975)             *)
(***************************************************************************)

MaxStreamEvents == 3

\* The length of an event line of the body: a line can be cut inside.
UnitsPerLine == 2

\* index.ts:953-970: fullResponse is split into lines and every line from
\* the first one on is parsed; the content of each chat model event is
\* appended to lastMessage. A line that is cut makes JSON.parse throw, which
\* ends the pass.
ParsedContent(events, received) ==
    SelectSeq([i \in 1..(received \div UnitsPerLine) |-> i],
              LAMBDA i : events[i] = "on_chat_model_stream")

\* index.ts:897-942: _call posts the message; the body of the response is a
\* stream of event lines, chat model events and others.
LangGraphCall ==
    /\ l_pc = "idle"
    /\ l_pc' = "reading"
    /\ l_events' \in SeqsUpTo({"on_chat_model_stream", "on_chain_end"}, MaxStreamEvents) \ {<<>>}
    /\ UNCHANGED <<l_received, l_lastMessage, l_result>>
    /\ UNCHANGED <<agentVars, openaiVars, humeVars, twilioVars, sttVars, middlewareVars, speakVars, mulawVars, wiringVars, hitlVars>>

\* index.ts:944-970: reader.read() gives the next network chunk, of any
\* length; it is appended to fullResponse, which is parsed.
LangGraphRead ==
    /\ l_pc = "reading"
    /\ \E len \in 1..(Len(l_events) * UnitsPerLine - l_received) :
          /\ l_received' = l_received + len
          /\ l_lastMessage' =
                l_lastMessage \o ParsedContent(l_events, l_received + len)
    /\ UNCHANGED <<l_pc, l_events, l_result>>
    /\ UNCHANGED <<agentVars, openaiVars, humeVars, twilioVars, sttVars, middlewareVars, speakVars, mulawVars, wiringVars, hitlVars>>

\* index.ts:945-946, 973-974: the body has ended; lastMessage is returned,
\* or an apology when it is empty.
LangGraphReturn ==
    /\ l_pc = "reading"
    /\ l_received = Len(l_events) * UnitsPerLine
    /\ l_pc' = "returned"
    /\ l_result' = IF l_lastMessage = <<>> THEN <<0>> ELSE l_lastMessage
    /\ UNCHANGED <<l_events, l_received, l_lastMessage>>
    /\ UNCHANGED <<agentVars, openaiVars, humeVars, twilioVars, sttVars, middlewareVars, speakVars, mulawVars, wiringVars, hitlVars>>

LangNext ==
    \/ LangGraphCall
    \/ LangGraphRead
    \/ LangGraphReturn

(***************************************************************************)
(* Confirmation prompts of the careers agent (agent/src/graph.ts) and the  *)
(* buttons of the frontend (unnamed/part_004)                              *)
(***************************************************************************)

MaxPrompts == 2

\* graph.ts:112, 168, 233: what each tool takes for a confirmation; a string
\* is the sequence of its characters, and Includes is
\* userResponse.toLowerCase().includes(word).
Accepts(prompt, response) ==
    LET lower == [i \in 1..Len(response) |->
                    CASE response[i] = "Y" -> "y"
                      [] response[i] = "N" -> "n"
                      [] OTHER -> response[i]]
        Includes(word) ==
            \E i \in 0..(Len(lower) - Len(word)) :
                SubSeq(lower, i + 1, i + Len(word)) = word
    IN  CASE prompt.tool = "save_profile" ->
                \/ Includes(<<"y", "e", "s">>)
                \/ Includes(<<"c", "o", "r", "r", "e", "c", "t">>)
          [] prompt.tool = "update_skills" ->
                \/ Includes(<<"y", "e", "s">>)
                \/ Includes(<<"g", "o", "o", "d">>)
          [] prompt.tool = "apply_to_job" ->
                /\ Includes(<<"y", "e", "s">>)
                /\ Includes(<<"a", "p", "p", "l", "y">>)

\* graph.ts:110, 166, 231: a tool calls interrupt() with its message; the
\* frontend shows the confirmation modal (part_004:100-111, 258-265).
HITLInterrupt ==
    /\ g_pc = "idle"
    /\ Len(g_log) < MaxPrompts
    /\ g_pc' = "prompted"
    /\ g_prompt' \in {[tool |-> "save_profile", action |-> "none"],
                      [tool |-> "update_skills", action |-> "add"],
                      [tool |-> "update_skills", action |-> "remove"],
                      [tool |-> "apply_to_job", action |-> "none"]}
    /\ UNCHANGED <<g_button, g_resume, g_log>>
    /\ UNCHANGED <<agentVars, openaiVars, humeVars, twilioVars, sttVars, middlewareVars, speakVars, mulawVars, wiringVars, langVars>>

\* part_004:262-263, 119-131: onConfirm calls handleResponse("yes") and
\* onCancel handleResponse("no"), which runs the agent with command.resume.
HITLHandleResponse ==
    /\ g_pc = "prompted"
    /\ g_pc' = "resuming"
    /\ \E button \in {"confirm", "cancel"} :
          /\ g_button' = button
          /\ g_resume' = IF button = "confirm" THEN <<"y", "e", "s">>
                          ELSE <<"n", "o">>
    /\ UNCHANGED <<g_prompt, g_log>>
    /\ UNCHANGED <<agentVars, openaiVars, humeVars, twilioVars, sttVars, middlewareVars, speakVars, mulawVars, wiringVars, langVars>>

\* graph.ts:110-140, 166-172, 231-245: interrupt() returns the resume value
\* in the suspended tool, which goes on or cancels.
HITLResume ==
    /\ g_pc = "resuming"
    /\ g_pc' = "idle"
    /\ g_log' = Append(g_log, [prompt |-> g_prompt, button |-> g_button,
                               confirmed |-> Accepts(g_prompt, g_resume)])
    /\ UNCHANGED <<g_prompt, g_button, g_resume>>
    /\ UNCHANGED <<agentVars, openaiVars, humeVars, twilioVars, sttVars, middlewareVars, speakVars, mulawVars, wiringVars, langVars>>

HITLNext ==
    \/ HITLInterrupt
    \/ HITLHandleResponse
    \/ HITLResume

(***************************************************************************)
(* OpenAI speech-to-text adapter with its voice activity detector          *)
(* (provider/openai/src/stt.ts)                                            *)
(***************************************************************************)

\* A byte of the stream is its position in the stream. A frame handed to
\* processFrame is recorded with its bytes and its energy; the audio buffer
\* and the flushed utterances hold frames by their number in s_stream.
\* onSpeechStart is taken to be configured, as the voice agent always does.

\* stt.ts:101-102: bytesPerFrame = samplesPerFrame * 2
bytesPerFrame == SamplesPerFrame * 2

\* The energies a frame is given: the threshold itself and just above it.
FrameEnergies == {vadEnergyThreshold, vadEnergyThreshold + 1}

\* Values given to the option vadSilenceFrames.
SilenceFrameCounts == {1, 2}

\* Values given to the option minAudioDurationMs; two frames last 64 ms and
\* three 96 ms.
MinAudioDurations == {50, 80}

\* A detector that calls a frame at the threshold speech.
IsSpeechAtThreshold(energy) == energy >= vadEnergyThreshold

\* stt.ts:179: isSpeech = energy > vadEnergyThreshold
IsSpeech(energy) == energy > vadEnergyThreshold

\* A detector that keeps its silence count over a speech frame.
SilenceCountOnSpeechKept(vad) == vad.silenceFrameCount

\* stt.ts:182: silenceFrameCount = 0
SilenceCountOnSpeech(vad) == 0

\* A detector that keeps its speech count over a silence frame.
SpeechCountOnSilenceKept(vad) == vad.speechFrameCount

\* stt.ts:254: speechFrameCount = 0
SpeechCountOnSilence(vad) == 0

\* stt.ts:105-110 and 242-247: the state of the detector at construction and
\* after a flush.
VadIdle ==
    [audioBuffer |-> <<>>, speechFrameCount |-> 0, silenceFrameCount |-> 0,
     isSpeaking |-> FALSE, speechStartSignaled |-> FALSE]

\* What processFrame returns when the speech has not ended.
Continues(vad, started, signalled) ==
    [vad |-> vad, speechEnded |-> FALSE, audioData |-> <<>>,
     started |-> started, signalled |-> signalled]

\* stt.ts:177-259: processFrame(frame) for the frame numbered frame, in
\* detector state vad; silenceFrames is the option vadSilenceFrames.
ProcessFrame(vad, frame, energy, silenceFrames) ==
    IF IsSpeech(energy)
    THEN LET count == vad.speechFrameCount + 1
             started == ~vad.isSpeaking /\ count >= minSpeechFrames
             signalled == started /\ ~vad.speechStartSignaled
             speaking == vad.isSpeaking \/ started
         IN  Continues([audioBuffer |-> IF speaking
                                        THEN Append(vad.audioBuffer, frame)
                                        ELSE vad.audioBuffer,
                        speechFrameCount |-> count,
                        silenceFrameCount |-> SilenceCountOnSpeech(vad),
                        isSpeaking |-> speaking,
                        speechStartSignaled |-> vad.speechStartSignaled \/ signalled],
                       started, signalled)
    ELSE IF vad.isSpeaking
    THEN LET silence == vad.silenceFrameCount + 1
             buffer == Append(vad.audioBuffer, frame)
         IN  IF silence >= silenceFrames
             THEN [vad |-> VadIdle, speechEnded |-> TRUE, audioData |-> buffer,
                   started |-> FALSE, signalled |-> FALSE]
             ELSE Continues([vad EXCEPT !.silenceFrameCount = silence,
                                        !.audioBuffer = buffer],
                            FALSE, FALSE)
    ELSE Continues([vad EXCEPT !.speechFrameCount = SpeechCountOnSilence(vad)],
                   FALSE, FALSE)

\* stt.ts:274: the duration of a buffer of whole frames, each frameSizeMs long.
DurationMs(audio) == Len(audio) * frameSizeMs

\* A stage that sends every utterance on.
TooShortNever(audio, minMs) == FALSE

\* stt.ts:275: durationMs < minAudioDurationMs
TooShort(audio, minMs) == DurationMs(audio) < minMs

\* A stage that forgets the bytes of a cut frame.
RemainingBytesDropped(combined, offset) == <<>>

\* stt.ts:333: pendingBytes = combined.subarray(offset)
RemainingBytes(combined, offset) == SubSeq(combined, offset + 1, Len(combined))

\* The bytes of a chunk of len bytes that follows from bytes of the stream.
ChunkBytes(from, len) == [i \in 1..len |-> from + i - 1]

\* A stage whose transform() lets the error of a request through.
TranscribeErrorCaughtNever == FALSE

\* stt.ts:283, 324-326: the requests are made inside try/catch.
TranscribeErrorCaught == TRUE

\* stt.ts:85-116: the constructor, with the options it is given.
STTNew ==
    /\ s_pc = "new"
    /\ s_pc' = "made"
    /\ s_vadSilenceFrames' \in SilenceFrameCounts
    /\ s_minAudioDurationMs' \in MinAudioDurations
    /\ UNCHANGED <<s_vad, s_pendingBytes, s_combined, s_offset, s_partial,
                   s_received, s_stream, s_onsets, s_speechStarts, s_flushed,
                   s_requests, s_out, s_failures>>
    /\ UNCHANGED <<s_listeners, s_listenerCalls>>
    /\ UNCHANGED <<agentVars, openaiVars, humeVars, twilioVars, middlewareVars, speakVars, mulawVars, wiringVars, langVars, hitlVars>>

\* agent.ts:138-141: createVoiceAgent gives the combined onSpeechStart of the
\* middleware to the stage's addSpeechStartListener.
AddSpeechStartListener ==
    /\ s_pc = "made"
    /\ s_pc' = "idle"
    /\ s_listeners' = Append(s_listeners, "voiceHooks.onSpeechStart")
    /\ UNCHANGED <<s_vadSilenceFrames, s_minAudioDurationMs, s_vad, s_pendingBytes,
                   s_combined, s_offset, s_partial, s_received, s_stream,
                   s_onsets, s_speechStarts, s_flushed, s_requests, s_out,
                   s_failures, s_listenerCalls>>
    /\ UNCHANGED <<agentVars, openaiVars, humeVars, twilioVars, middlewareVars, speakVars, mulawVars, wiringVars, langVars, hitlVars>>

\* stt.ts:262-267: transform(chunk) up to the loop over the frames.
STTTransformBegin ==
    /\ s_pc = "idle"
    /\ \E len \in 0..MaxChunkBytes :
          /\ s_received + len <= MaxFrames * bytesPerFrame
          /\ s_combined' = s_pendingBytes \o ChunkBytes(s_received, len)
          /\ s_received' = s_received + len
    /\ s_offset' = 0
    /\ s_pc' = "loop"
    /\ UNCHANGED <<s_vadSilenceFrames, s_minAudioDurationMs, s_vad, s_pendingBytes,
                   s_partial, s_stream, s_onsets, s_speechStarts,
                   s_flushed, s_requests, s_out, s_failures>>
    /\ UNCHANGED <<s_listeners, s_listenerCalls>>
    /\ UNCHANGED <<agentVars, openaiVars, humeVars, twilioVars, middlewareVars, speakVars, mulawVars, wiringVars, langVars, hitlVars>>

\* stt.ts:136-147, 207-222: on a speech frame while speaking, once 500 ms
\* have passed (due), a partial transcription is asked for unless one is
\* running.
AsksPartial(due, energy, vad) ==
    /\ due
    /\ IsSpeech(energy)
    /\ vad.isSpeaking
    /\ s_partial # "running"
    /\ vad.audioBuffer # <<>>

\* A partial request that takes the buffered audio with it.
AudioBufferTakenByPartial(vad) == <<>>

\* stt.ts:150: getPartialTranscription() copies the buffered audio with
\* Buffer.concat; audioBuffer is left as it is.
AudioBufferAfterPartial(vad) == vad.audioBuffer

\* stt.ts:90, 195-198: the signal of processFrame is a call of the
\* onSpeechStart option alone; the stage never calls notifySpeechStart(), so
\* none of the listeners of addSpeechStartListener is run by it.
SignalledListeners(listeners) == <<>>

\* stt.ts:268-281, 329: one pass of the loop: processFrame on the next frame
\* of combined; an utterance that is long enough goes to the request.
STTFrame ==
    /\ s_pc = "loop"
    /\ s_offset + bytesPerFrame <= Len(s_combined)
    /\ \E energy \in FrameEnergies, due \in BOOLEAN :
          LET frame == Len(s_stream) + 1
              r == ProcessFrame(s_vad, frame, energy, s_vadSilenceFrames)
              asks == AsksPartial(due, energy, r.vad)
          IN  /\ s_stream' = Append(s_stream,
                    [bytes |-> SubSeq(s_combined, s_offset + 1,
                                      s_offset + bytesPerFrame),
                     energy |-> energy])
              /\ s_vad' = IF asks
                          THEN [r.vad EXCEPT
                                  !.audioBuffer = AudioBufferAfterPartial(r.vad)]
                          ELSE r.vad
              /\ s_onsets' = IF r.started THEN Append(s_onsets, frame) ELSE s_onsets
              /\ s_speechStarts' = IF r.signalled THEN Append(s_speechStarts, frame)
                                   ELSE s_speechStarts
              /\ s_listenerCalls' =
                    IF r.signalled
                    THEN s_listenerCalls \o
                         [i \in 1..Len(SignalledListeners(s_listeners)) |->
                            <<frame, SignalledListeners(s_listeners)[i]>>]
                    ELSE s_listenerCalls
              /\ s_partial' = IF asks THEN "running" ELSE s_partial
              /\ s_flushed' = IF r.speechEnded THEN Append(s_flushed, r.audioData)
                              ELSE s_flushed
              /\ IF r.speechEnded /\ ~TooShort(r.audioData, s_minAudioDurationMs)
                 THEN /\ s_pc' = "toFile"
                      /\ UNCHANGED s_offset
                 ELSE /\ s_offset' = s_offset + bytesPerFrame
                      /\ UNCHANGED s_pc
    /\ UNCHANGED <<s_vadSilenceFrames, s_minAudioDurationMs, s_pendingBytes,
                   s_combined, s_received, s_requests, s_out, s_failures,
                   s_listeners>>
    /\ UNCHANGED <<agentVars, openaiVars, humeVars, twilioVars, middlewareVars, speakVars, mulawVars, wiringVars, langVars, hitlVars>>

\* stt.ts:293-298: toFile() resolves; the utterance is sent to
\* transcriptions.create.
STTRequest ==
    /\ s_pc = "toFile"
    /\ s_pc' = "create"
    /\ s_requests' = Append(s_requests, Len(s_flushed))
    /\ UNCHANGED <<s_vadSilenceFrames, s_minAudioDurationMs, s_vad, s_pendingBytes,
                   s_combined, s_offset, s_partial, s_received, s_stream,
                   s_onsets, s_speechStarts, s_flushed, s_out,
                   s_failures>>
    /\ UNCHANGED <<s_listeners, s_listenerCalls>>
    /\ UNCHANGED <<agentVars, openaiVars, humeVars, twilioVars, middlewareVars, speakVars, mulawVars, wiringVars, langVars, hitlVars>>

\* stt.ts:301-323: the text of the response is enqueued unless it is empty
\* or is one of the short words of the echo filter on a short utterance.
Enqueues(text, audio) ==
    \/ text = "text"
    \/ text = "word" /\ ~(DurationMs(audio) < echoFilterMs)

\* stt.ts:295-329: transcriptions.create resolves.
STTTranscribed ==
    /\ s_pc = "create"
    /\ \E text \in {"text", "empty", "word"} :
          s_out' = IF Enqueues(text, s_flushed[Len(s_flushed)])
                   THEN Append(s_out, Len(s_flushed)) ELSE s_out
    /\ s_offset' = s_offset + bytesPerFrame
    /\ s_pc' = "loop"
    /\ UNCHANGED <<s_vadSilenceFrames, s_minAudioDurationMs, s_vad, s_pendingBytes,
                   s_combined, s_partial, s_received, s_stream, s_onsets,
                   s_speechStarts, s_flushed, s_requests, s_failures>>
    /\ UNCHANGED <<s_listeners, s_listenerCalls>>
    /\ UNCHANGED <<agentVars, openaiVars, humeVars, twilioVars, middlewareVars, speakVars, mulawVars, wiringVars, langVars, hitlVars>>

\* stt.ts:293-298, 324-329: toFile() or transcriptions.create rejects.
STTTranscribeFails ==
    /\ s_pc \in {"toFile", "create"}
    /\ s_failures' = Append(s_failures, Len(s_flushed))
    /\ IF TranscribeErrorCaught
       THEN /\ s_offset' = s_offset + bytesPerFrame
            /\ s_pc' = "loop"
       ELSE /\ s_pc' = "errored"
            /\ UNCHANGED s_offset
    /\ UNCHANGED <<s_vadSilenceFrames, s_minAudioDurationMs, s_vad, s_pendingBytes,
                   s_combined, s_partial, s_received, s_stream, s_onsets,
                   s_speechStarts, s_flushed, s_requests, s_out>>
    /\ UNCHANGED <<s_listeners, s_listenerCalls>>
    /\ UNCHANGED <<agentVars, openaiVars, humeVars, twilioVars, middlewareVars, speakVars, mulawVars, wiringVars, langVars, hitlVars>>

\* stt.ts:268, 332-334: fewer bytes than a frame are left; they are kept for
\* the next chunk and transform() returns.
STTLoopEnd ==
    /\ s_pc = "loop"
    /\ ~(s_offset + bytesPerFrame <= Len(s_combined))
    /\ s_pendingBytes' = RemainingBytes(s_combined, s_offset)
    /\ s_combined' = <<>>
    /\ s_offset' = 0
    /\ s_pc' = "idle"
    /\ UNCHANGED <<s_vadSilenceFrames, s_minAudioDurationMs, s_vad,
                   s_partial, s_received, s_stream, s_onsets,
                   s_speechStarts, s_flushed, s_requests, s_out,
                   s_failures>>
    /\ UNCHANGED <<s_listeners, s_listenerCalls>>
    /\ UNCHANGED <<agentVars, openaiVars, humeVars, twilioVars, middlewareVars, speakVars, mulawVars, wiringVars, langVars, hitlVars>>

\* stt.ts:156-173: the partial transcription request settles; its text is
\* only logged.
STTPartialDone ==
    /\ s_partial = "running"
    /\ s_partial' = "done"
    /\ UNCHANGED <<s_pc, s_vadSilenceFrames, s_minAudioDurationMs, s_vad,
                   s_pendingBytes, s_combined, s_offset, s_received, s_stream,
                   s_onsets, s_speechStarts, s_flushed, s_requests, s_out, s_failures>>
    /\ UNCHANGED <<s_listeners, s_listenerCalls>>
    /\ UNCHANGED <<agentVars, openaiVars, humeVars, twilioVars, middlewareVars, speakVars, mulawVars, wiringVars, langVars, hitlVars>>

\* stt.ts:336-351: flush(), at the end of the stream: speech in progress is
\* discarded.
STTFlush ==
    /\ s_pc = "idle"
    /\ s_pc' = "closed"
    /\ s_vad' = IF s_vad.isSpeaking /\ s_vad.audioBuffer # <<>>
                THEN [s_vad EXCEPT !.audioBuffer = <<>>, !.isSpeaking = FALSE,
                                   !.speechStartSignaled = FALSE]
                ELSE s_vad
    /\ UNCHANGED <<s_vadSilenceFrames, s_minAudioDurationMs, s_pendingBytes,
                   s_combined, s_offset, s_partial, s_received, s_stream,
                   s_onsets, s_speechStarts, s_flushed, s_requests, s_out, s_failures>>
    /\ UNCHANGED <<s_listeners, s_listenerCalls>>
    /\ UNCHANGED <<agentVars, openaiVars, humeVars, twilioVars, middlewareVars, speakVars, mulawVars, wiringVars, langVars, hitlVars>>

STTInit ==
    /\ s_pc = "new"
    /\ s_vadSilenceFrames = 0
    /\ s_minAudioDurationMs = 0
    /\ s_vad = VadIdle
    /\ s_pendingBytes = <<>>
    /\ s_combined = <<>>
    /\ s_offset = 0
    /\ s_partial = "none"
    /\ s_received = 0
    /\ s_stream = <<>>
    /\ s_onsets = <<>>
    /\ s_speechStarts = <<>>
    /\ s_flushed = <<>>
    /\ s_requests = <<>>
    /\ s_out = <<>>
    /\ s_failures = <<>>
    /\ s_listeners = <<>>
    /\ s_listenerCalls = <<>>

STTNext ==
    \/ STTNew
    \/ AddSpeechStartListener
    \/ STTTransformBegin
    \/ STTFrame
    \/ STTRequest
    \/ STTTranscribed
    \/ STTTranscribeFails
    \/ STTLoopEnd
    \/ STTPartialDone
    \/ STTFlush

(***************************************************************************)
(* Direct synthesis: speak(text) on the text-to-speech adapters            *)
(* (provider/openai/src/stt.ts:521-534, provider/hume/src/tts.ts:270-303)  *)
(***************************************************************************)

\* No speak() call yet. pc is the position of the call; made counts the audio
\* chunks synthesised for it, out those enqueued on its stream; closes counts
\* controller.close(); interrupted notes that chunks were streamed while the
\* adapter's isInterrupted was set.
SpeakIdle == [pc |-> "none", made |-> 0, out |-> 0, closes |-> 0,
              interrupted |-> FALSE]

\* A streamChunks that is given the interrupt check of the main pipeline.
SpeakChunksChecked(n, interrupted) == IF interrupted THEN 0 ELSE n

\* stt.ts:469-482, 526: speak() calls streamChunks without checkInterrupt:
\* every chunk of the buffer is enqueued.
SpeakChunks(n, interrupted) == n

\* stt.ts:424-426, 521-524: speak(text) returns a stream whose start() awaits
\* generateSpeech.
OpenAISpeak ==
    /\ o_speak.pc = "none"
    /\ o_speak' = [o_speak EXCEPT !.pc = "generating"]
    /\ UNCHANGED h_speak
    /\ UNCHANGED <<agentVars, openaiVars, humeVars, twilioVars, sttVars,
                   middlewareVars, mulawVars, wiringVars, langVars, hitlVars>>

\* stt.ts:523-531: generateSpeech resolves with a buffer of n chunks, which
\* are streamed before the stream is closed, or it rejects (n = 0) and the
\* stream is closed.
OpenAISpeakDone ==
    /\ o_speak.pc = "generating"
    /\ \E n \in 0..MaxChunks :
          o_speak' = [pc |-> "closed", made |-> n,
                      out |-> SpeakChunks(n, o_isInterrupted), closes |-> 1,
                      interrupted |-> o_isInterrupted /\ n > 0]
    /\ UNCHANGED h_speak
    /\ UNCHANGED <<agentVars, openaiVars, humeVars, twilioVars, sttVars,
                   middlewareVars, mulawVars, wiringVars, langVars, hitlVars>>

\* tts.ts:270-278: speak(text) opens a WebSocket of its own, speakWs.
HumeSpeak ==
    /\ h_speak.pc = "none"
    /\ h_speak' = [h_speak EXCEPT !.pc = "connecting"]
    /\ UNCHANGED o_speak
    /\ UNCHANGED <<agentVars, openaiVars, humeVars, twilioVars, sttVars,
                   middlewareVars, mulawVars, wiringVars, langVars, hitlVars>>

\* tts.ts:280-300: the handlers of speakWs. open sends the text, flush and
\* close; an audio message is enqueued; error closes the stream; close closes
\* it too (ws emits close after error, and a second controller.close()
\* throws a TypeError).
HumeSpeakEvent ==
    /\ \E event \in {"open", "message", "error", "close"} :
          CASE event = "open" ->
                  /\ h_speak.pc = "connecting"
                  /\ h_speak' = [h_speak EXCEPT !.pc = "open"]
            [] event = "message" ->
                  /\ h_speak.pc = "open"
                  /\ h_speak.made < AudioPerSegment
                  /\ h_speak' = [h_speak EXCEPT !.made = @ + 1, !.out = @ + 1,
                                   !.interrupted = @ \/ h_isInterrupted]
            [] event = "error" ->
                  /\ h_speak.pc \in {"connecting", "open"}
                  /\ h_speak' = [h_speak EXCEPT !.pc = "failed", !.closes = @ + 1]
            [] event = "close" ->
                  /\ h_speak.pc \in {"open", "failed"}
                  /\ h_speak' = [h_speak EXCEPT !.pc = "closed", !.closes = @ + 1]
    /\ UNCHANGED o_speak
    /\ UNCHANGED <<agentVars, openaiVars, humeVars, twilioVars, sttVars,
                   middlewareVars, mulawVars, wiringVars, langVars, hitlVars>>

SpeakInit ==
    /\ o_speak = SpeakIdle
    /\ h_speak = SpeakIdle

\* A session has one adapter (packages/twilio/src/index.ts:749-770), used
\* for the pipeline and for speak(); the pipeline synthesises one segment
\* while the text of speak() is spoken.
SpeakNext ==
    \/ /\ HumeInit /\ h_speak = SpeakIdle
       /\ \/ OpenAINext /\ o_segs' <= 1
          \/ OpenAISpeak
          \/ OpenAISpeakDone
    \/ /\ OpenAIInit /\ o_speak = SpeakIdle
       /\ \/ HumeNext /\ h_segs' <= 1
          \/ HumeSpeak
          \/ HumeSpeakEvent

(***************************************************************************)
(* Middleware composition and the pipeline of process()                    *)
(* (core/src/middleware.ts, core/src/agent.ts)                             *)
(***************************************************************************)
Seams == {"beforeSTT", "afterSTT", "beforeTTS", "afterTTS"}

Events == {"onSpeechStart", "onAudioComplete"}

\* The transforms a middleware brings to each seam.
TransformProfiles ==
    { [beforeSTT |-> 1, afterSTT |-> 0, beforeTTS |-> 2, afterTTS |-> 0],
      [beforeSTT |-> 0, afterSTT |-> 1, beforeTTS |-> 0, afterTTS |-> 1] }

\* A callback of a middleware: absent, one that returns, one that throws.
CallbackKinds == {"none", "returns", "throws"}

\* middleware.ts:219-246: a voice middleware carries voiceHooks; a plain
\* AgentMiddleware carries none.
PlainMiddleware ==
    [voice |-> FALSE,
     transforms |-> [beforeSTT |-> 0, afterSTT |-> 0, beforeTTS |-> 0, afterTTS |-> 0],
     onSpeechStart |-> "none", onAudioComplete |-> "none"]

VoiceMiddlewares ==
    [voice : {TRUE}, transforms : TransformProfiles,
     onSpeechStart : CallbackKinds, onAudioComplete : CallbackKinds]

Middlewares == {PlainMiddleware} \cup VoiceMiddlewares

\* middleware.ts:256-260
isVoiceMiddleware(middleware) == middleware.voice

\* The k-th transform middleware i brings to a seam.
Transform(seam, i, k) == [kind |-> seam, middleware |-> i, k |-> k]

\* The speech-to-text, agent and text-to-speech stages.
Stage(kind) == [kind |-> kind, middleware |-> 0, k |-> 0]

\* agent.ts:137: the voice hooks without middleware are the empty object.
NoHooks ==
    [beforeSTT |-> <<>>, afterSTT |-> <<>>, beforeTTS |-> <<>>, afterTTS |-> <<>>,
     onSpeechStart |-> <<>>, onAudioComplete |-> <<>>]

\* middleware.ts:309-320: combined.seam.push(...voiceHooks.seam)
PushTransforms(chain, middleware, i, seam) ==
    chain \o [k \in 1..middleware.transforms[seam] |-> Transform(seam, i, k)]

\* middleware.ts:323-328: the callback of an event is pushed if there is one.
PushCallback(callbacks, middleware, i, event) ==
    IF middleware[event] # "none"
    THEN Append(callbacks, [middleware |-> i, kind |-> middleware[event]])
    ELSE callbacks

\* middleware.ts:299-330: one pass of the loop over the middlewares.
CombineOne(combined, middleware, i) ==
    IF isVoiceMiddleware(middleware)
    THEN [beforeSTT |-> PushTransforms(combined.beforeSTT, middleware, i, "beforeSTT"),
          afterSTT |-> PushTransforms(combined.afterSTT, middleware, i, "afterSTT"),
          beforeTTS |-> PushTransforms(combined.beforeTTS, middleware, i, "beforeTTS"),
          afterTTS |-> PushTransforms(combined.afterTTS, middleware, i, "afterTTS"),
          onSpeechStart |-> PushCallback(combined.onSpeechStart, middleware, i,
                                         "onSpeechStart"),
          onAudioComplete |-> PushCallback(combined.onAudioComplete, middleware, i,
                                           "onAudioComplete")]
    ELSE combined

RECURSIVE CombineFrom(_, _, _)
CombineFrom(middlewares, i, combined) ==
    IF i > Len(middlewares) THEN combined
    ELSE CombineFrom(middlewares, i + 1, CombineOne(combined, middlewares[i], i))

\* middleware.ts:284-350
combineMiddleware(middlewares) == CombineFrom(middlewares, 1, NoHooks)

\* A combined hook whose loop goes on after a callback that throws.
CallbacksRunIsolated(callbacks) ==
    [called |-> callbacks,
     threw |-> \E i \in 1..Len(callbacks) : callbacks[i].kind = "throws"]

\* middleware.ts:334-338, 342-346: the combined hook calls the callbacks in
\* a for loop without try/catch: the first one that throws ends the loop.
CallbacksRun(callbacks) ==
    LET throwing == {i \in 1..Len(callbacks) : callbacks[i].kind = "throws"}
        first == CHOOSE i \in throwing : \A j \in throwing : i <= j
    IN  IF throwing = {} THEN [called |-> callbacks, threw |-> FALSE]
        ELSE [called |-> SubSeq(callbacks, 1, first), threw |-> TRUE]

\* middleware.ts:360-369: result = result.pipeThrough(transform), in the
\* order of the array; a stream is the stages its data has passed.
RECURSIVE pipeThroughTransforms(_, _)
pipeThroughTransforms(stream, transforms) ==
    IF transforms = <<>> THEN stream
    ELSE pipeThroughTransforms(Append(stream, Head(transforms)), Tail(transforms))

\* A seam applied when its chain holds a transform (agent.ts:241, 249, 257, 265).
Seam(stream, transforms) ==
    IF Len(transforms) > 0 THEN pipeThroughTransforms(stream, transforms)
    ELSE stream

\* A process() that puts the speech-to-text stage before the beforeSTT chain.
ProcessSTTFirst(voiceHooks) ==
    LET pipeline == Append(<<>>, Stage("stt"))
        textStream == Seam(Seam(pipeline, voiceHooks.beforeSTT), voiceHooks.afterSTT)
        agentOutput == Seam(Append(textStream, Stage("agent")), voiceHooks.beforeTTS)
    IN  Seam(Append(agentOutput, Stage("tts")), voiceHooks.afterTTS)

\* agent.ts:236-270: process(audioInput), steps 1 to 7.
Process(voiceHooks) ==
    LET pipeline == Seam(<<>>, voiceHooks.beforeSTT)
        textStream == Seam(Append(pipeline, Stage("stt")), voiceHooks.afterSTT)
        agentOutput == Seam(Append(textStream, Stage("agent")), voiceHooks.beforeTTS)
    IN  Seam(Append(agentOutput, Stage("tts")), voiceHooks.afterTTS)

NotFired == [event |-> "none", called |-> <<>>, threw |-> FALSE]

\* agent.ts:110-137: createVoiceAgent combines the middleware it is given.
CreateVoiceAgent ==
    /\ m_pc = "new"
    /\ m_pc' = "created"
    /\ m_middlewares' \in SeqsUpTo(Middlewares, MaxMiddlewares)
    /\ m_hooks' = IF Len(m_middlewares') > 0 THEN combineMiddleware(m_middlewares')
                  ELSE NoHooks
    /\ UNCHANGED <<m_pipeline, m_item, m_fired>>
    /\ UNCHANGED <<agentVars, openaiVars, humeVars, twilioVars, sttVars, speakVars, mulawVars, wiringVars, langVars, hitlVars>>

\* agent.ts:236-270: process() builds the pipeline.
ProcessCalled ==
    /\ m_pc = "created"
    /\ m_pc' = "built"
    /\ m_pipeline' = Process(m_hooks)
    /\ UNCHANGED <<m_middlewares, m_hooks, m_item, m_fired>>
    /\ UNCHANGED <<agentVars, openaiVars, humeVars, twilioVars, sttVars, speakVars, mulawVars, wiringVars, langVars, hitlVars>>

\* The item in the pipeline passes the next stage of the piped chain.
StagePassed ==
    /\ m_pc = "built"
    /\ Len(m_item) < Len(m_pipeline)
    /\ m_item' = Append(m_item, m_pipeline[Len(m_item) + 1])
    /\ UNCHANGED <<m_pc, m_middlewares, m_hooks, m_pipeline, m_fired>>
    /\ UNCHANGED <<agentVars, openaiVars, humeVars, twilioVars, sttVars, speakVars, mulawVars, wiringVars, langVars, hitlVars>>

\* The item is read from the stream process() returned; the next one may
\* enter.
ItemRead ==
    /\ m_pc = "built"
    /\ Len(m_item) = Len(m_pipeline)
    /\ m_item' = <<>>
    /\ UNCHANGED <<m_pc, m_middlewares, m_hooks, m_pipeline, m_fired>>
    /\ UNCHANGED <<agentVars, openaiVars, humeVars, twilioVars, sttVars, speakVars, mulawVars, wiringVars, langVars, hitlVars>>

\* middleware.ts:333-347, agent.ts:139-144: a stage calls the combined hook
\* of an event; the hook exists when a middleware has a callback for it.
HookFired ==
    /\ m_pc \in {"created", "built"}
    /\ \E event \in Events :
          /\ Len(m_hooks[event]) > 0
          /\ m_fired' = [event |-> event] @@ CallbacksRun(m_hooks[event])
    /\ UNCHANGED <<m_pc, m_middlewares, m_hooks, m_pipeline, m_item>>
    /\ UNCHANGED <<agentVars, openaiVars, humeVars, twilioVars, sttVars, speakVars, mulawVars, wiringVars, langVars, hitlVars>>

MiddlewareInit ==
    /\ m_pc = "new"
    /\ m_middlewares = <<>>
    /\ m_hooks = NoHooks
    /\ m_pipeline = <<>>
    /\ m_item = <<>>
    /\ m_fired = NotFired

MiddlewareNext ==
    \/ CreateVoiceAgent
    \/ ProcessCalled
    \/ StagePassed
    \/ ItemRead
    \/ HookFired

(***************************************************************************)
(* G.711 mu-law: linearToMulaw and PcmToMulawTransform (unnamed/part_005),  *)
(* MULAW_TO_LINEAR (frontend/src/lib/zep/client.ts)                        *)
(***************************************************************************)

\* part_005:16-22, indexed from 1.
SEGMENT_TABLE ==
    <<0, 1, 2, 2, 3, 3, 3, 3, 4, 4, 4, 4, 4, 4, 4, 4>>
        \o [i \in 1..16 |-> 5] \o [i \in 1..32 |-> 6] \o [i \in 1..64 |-> 7]

\* part_005:27-49. x >> n is x \div 2^n, x & 0x7f is x % 128; sign, segment
\* << 4 and the mantissa have no bit in common, so | is +; ~v & 0xff is
\* 255 - v for a byte v.
linearToMulaw(sample) ==
    LET sign == IF sample < 0 THEN 128 ELSE 0
        magnitude == IF sample < 0 THEN -sample ELSE sample
        clipped == IF magnitude > MULAW_CLIP THEN MULAW_CLIP ELSE magnitude
        absValue == clipped + MULAW_BIAS
        segment == SEGMENT_TABLE[((absValue \div 256) % 128) + 1]
        mantissa == (absValue \div 2^(segment + 3)) % 16
    IN  255 - (sign + segment * 16 + mantissa)

\* client.ts:132-151: the entry of the decoding table for byte i.
MULAW_TO_LINEAR(i) ==
    LET mulaw == 255 - i
        sign == IF (mulaw \div 128) % 2 = 1 THEN -1 ELSE 1
        exponent == (mulaw \div 16) % 8
        mantissa == mulaw % 16
        linear == (mantissa * 2 + 33) * 2^exponent
    IN  (linear - 33) * sign

\* part_005:27: a 16-bit sample is encoded.
Encode ==
    /\ c_pc = "idle"
    /\ c_pc' = "encoded"
    /\ c_sample' \in -32768..32767
    /\ c_mulaw' = linearToMulaw(c_sample')
    /\ UNCHANGED <<c_linear, p_rate, p_acc, p_bytes, p_chunks, p_out>>
    /\ UNCHANGED <<agentVars, openaiVars, humeVars, twilioVars, sttVars,
                   middlewareVars, speakVars, wiringVars, langVars, hitlVars>>

\* client.ts:132-151: the byte is decoded with the table.
Decode ==
    /\ c_pc = "encoded"
    /\ c_pc' = "decoded"
    /\ c_linear' = MULAW_TO_LINEAR(c_mulaw)
    /\ UNCHANGED <<c_sample, c_mulaw, p_rate, p_acc, p_bytes, p_chunks, p_out>>
    /\ UNCHANGED <<agentVars, openaiVars, humeVars, twilioVars, sttVars,
                   middlewareVars, speakVars, wiringVars, langVars, hitlVars>>

CodecNext == Encode \/ Decode

\* Byte values of the PCM stream.
PcmBytes == {0, 16, 255}

\* Values of the sourceSampleRate option whose ratio to 8000 a double holds
\* exactly.
SourceSampleRates == {8000, 12000, 16000}

\* Buffer.readInt16LE(offset), offset counted from 0.
readInt16LE(chunk, offset) ==
    LET unsigned == chunk[offset + 1] + 256 * chunk[offset + 2]
    IN  IF unsigned >= 32768 THEN unsigned - 65536 ELSE unsigned

\* A transform() that starts every chunk at position 0.
AccumulatorReset(acc) == 0

\* part_005:74, 85: accumulator is a variable of the constructor's closure;
\* transform() goes on from the value the previous call left.
AccumulatorKept(acc) == acc

\* part_005:79-98: the loop over the pcmSamples = floor(length / 2) samples
\* of a chunk, from sample i on. accumulator >= downsampleRatio is compared
\* after multiplying both by targetSampleRate.
RECURSIVE Downsample(_, _, _, _, _)
Downsample(chunk, i, acc, rate, out) ==
    IF i >= Len(chunk) \div 2 THEN [acc |-> acc, out |-> out]
    ELSE LET stepped == acc + targetSampleRate
         IN  IF stepped >= rate
             THEN Downsample(chunk, i + 1, stepped - rate, rate,
                             Append(out, linearToMulaw(readInt16LE(chunk, i * 2))))
             ELSE Downsample(chunk, i + 1, stepped, rate, out)

\* part_005:66-74: the constructor.
PcmToMulawNew ==
    /\ p_rate = 0
    /\ p_rate' \in SourceSampleRates
    /\ UNCHANGED <<c_pc, c_sample, c_mulaw, c_linear, p_acc, p_bytes, p_chunks,
                   p_out>>
    /\ UNCHANGED <<agentVars, openaiVars, humeVars, twilioVars, sttVars,
                   middlewareVars, speakVars, wiringVars, langVars, hitlVars>>

\* part_005:77-103: transform(chunk); the samples it emits are enqueued as
\* one buffer.
PcmToMulawTransform ==
    /\ p_rate # 0
    /\ \E len \in 1..MaxPcmChunk :
          /\ Len(p_bytes) + len <= MaxPcmBytes
          /\ \E chunk \in [1..len -> PcmBytes] :
                LET r == Downsample(chunk, 0, AccumulatorKept(p_acc), p_rate, <<>>)
                IN  /\ p_acc' = r.acc
                    /\ p_out' = p_out \o r.out
                    /\ p_bytes' = p_bytes \o chunk
                    /\ p_chunks' = Append(p_chunks, len)
    /\ UNCHANGED <<c_pc, c_sample, c_mulaw, c_linear, p_rate>>
    /\ UNCHANGED <<agentVars, openaiVars, humeVars, twilioVars, sttVars,
                   middlewareVars, speakVars, wiringVars, langVars, hitlVars>>

PcmToMulawNext == PcmToMulawNew \/ PcmToMulawTransform

MulawInit ==
    /\ c_pc = "idle"
    /\ c_sample = 0
    /\ c_mulaw = 0
    /\ c_linear = 0
    /\ p_rate = 0
    /\ p_acc = 0
    /\ p_bytes = <<>>
    /\ p_chunks = <<>>
    /\ p_out = <<>>

Init ==
    /\ AgentInit /\ OpenAIInit /\ HumeInit /\ TwilioInit /\ STTInit
    /\ MiddlewareInit /\ SpeakInit /\ MulawInit /\ WiringInit
    /\ l_pc = "idle" /\ l_events = <<>> /\ l_received = 0
    /\ l_lastMessage = <<>> /\ l_result = <<>>
    /\ g_pc = "idle" /\ g_prompt = [tool |-> "none", action |-> "none"]
    /\ g_button = "none" /\ g_resume = <<>> /\ g_log = <<>>

SpecAgent == Init /\ [][AgentNext]_vars

SpecWiring == Init /\ [][WiringNext]_vars

SpecLangGraph == Init /\ [][LangNext]_vars

SpecHITL == Init /\ [][HITLNext]_vars

SpecOpenAI == Init /\ [][OpenAINext]_vars

SpecHume == Init /\ [][HumeNext]_vars

\* packages/twilio/src/index.ts:749-770: a session is built with one
\* text-to-speech provider; the other adapter is never constructed.
TTSNext ==
    \/ HumeInit /\ OpenAINext
    \/ OpenAIInit /\ HumeNext

\* Timers fire and a settled await goes on.
SpecHumeFlush ==
    Init /\ [][HumeFlushNext]_vars
         /\ WF_vars(HumeFlushTimeout) /\ WF_vars(HumeFlushResumes)

SpecTTS == Init /\ [][TTSNext]_vars

SpecTwilio == Init /\ [][TwilioNext]_vars

SpecSTT == Init /\ [][STTNext]_vars

SpecMiddleware == Init /\ [][MiddlewareNext]_vars

SpecSpeak == Init /\ [][SpeakNext]_vars

SpecCodec == Init /\ [][CodecNext]_vars

SpecPcmToMulaw == Init /\ [][PcmToMulawNext]_vars

(***************************************************************************)
(* Properties of the Agent Turn Controller                                 *)
(***************************************************************************)

Positions(log, what) == {i \in 1..Len(log) : log[i] = what}

\* A turn has run to the end of its state query.
TurnCompleted == a_pc = "idle" /\ a_call.kind # "none"

\* C1: an input that follows a turn whose state query reported a suspension
\* is handed to the agent as a resume, and an input that follows a turn whose
\* query reported none (the first input too) as a new user message.
C1_ResumeAfterSuspension ==
    a_call.kind # "none" => ((a_call.kind = "resume") <=> a_call.afterReport)

\* C2: within a turn onHangUp is called at most once, only after the loop
\* over the agent's stream has exited, and after every response-text chunk
\* the turn forwards, wherever in the stream the hang_up chunk came.
C2_HangUpAfterText ==
    /\ Cardinality(Positions(a_log, "hangup")) <= 1
    /\ \A i \in Positions(a_log, "hangup") :
          /\ a_pc # "loop"
          /\ \A j \in Positions(a_log, "chunk") : j < i
          /\ \E j \in Positions(a_log, "tool") : j < i

\* A turn whose hang_up chunk came before two response-text chunks has
\* called onHangUp.
C2_Witness ==
    /\ a_pc = "query"
    /\ a_log = <<"tool", "chunk", "chunk", "hangup">>

\* C3: an error of the agent collaborator aborts only the turn: it never
\* leaves the transform errored, so the next input is still taken.
C3_FaultAbortsOnlyTurn ==
    a_faults > 0 => a_pc # "errored"

\* C4: once the state query of a turn has reported a suspension, the
\* controller is in AwaitingResume, has called onInterrupt and, for a text
\* payload, has forwarded the prompt; every prompt follows every
\* response-text chunk of the turn.
C4_SuspensionCaptured ==
    /\ (TurnCompleted /\ a_reported) =>
          /\ a_pending # "undefined"
          /\ Positions(a_log, "onInterrupt") # {}
          /\ (a_pending = "text" => a_log[Len(a_log)] = "prompt")
    /\ \A i \in Positions(a_log, "prompt") :
          \A j \in Positions(a_log, "chunk") : j < i

\* C5: a turn calls onInterrupt at most once and forwards at most one
\* suspension prompt.
C5_OneSuspensionPerTurn ==
    /\ Cardinality(Positions(a_log, "onInterrupt")) <= 1
    /\ Cardinality(Positions(a_log, "prompt")) <= 1

C7_OpenAINoAudioAfterInterrupt ==
    \A i \in 1..Len(o_out) : ~o_out[i].late

\* C8: Hume TTS enqueues no audio of a segment that was submitted before an
\* interrupt() that took effect.
C8_HumeNoAudioAfterInterrupt ==
    \A i \in 1..Len(h_out) : ~h_out[i].late

\* The segments all of whose audio has been enqueued.
HumeDelivered ==
    {seg \in 1..h_segs :
        Cardinality({i \in 1..Len(h_out) : h_out[i].seg = seg}) = AudioPerSegment}

\* C9: Hume TTS calls onAudioComplete once per segment whose audio has been
\* fully delivered: never more often than segments have been delivered, so
\* not for a connection that interrupt() closed.
C9_HumeAudioCompletePerSegment ==
    h_audioComplete <= Cardinality(HumeDelivered)

\* C10: as long as interrupt() was only ever called with no synthesis in
\* flight, neither adapter has called onInterrupt or dropped a segment.
C10_IdleInterruptIsNoOp ==
    /\ o_busyInterrupts = 0 =>
          \A i \in 1..Len(o_results) : o_results[i] \notin {"dropped", "interrupted"}
    /\ h_busyInterrupts = 0 =>
          /\ h_onInterrupt = 0
          /\ \A i \in 1..Len(h_results) : h_results[i] # "dropped"

\* C11: a second interrupt() inside the cooldown of the first has no effect
\* of its own. OpenAI: with two calls, the second inside the cooldown, the
\* flag is up exactly while the timer of the first call is pending, so the
\* same segments are dropped as after one call. Hume: onInterrupt is called
\* once per call made outside a cooldown, and a call inside one leaves the
\* flag, the timers and the connection as they were.
C11_RepeatedInterruptIsSingle ==
    /\ (o_interrupts = 2 /\ o_repeated = 1) =>
          (o_isInterrupted <=> Len(o_timers) = o_interrupts)
    /\ h_onInterrupt + h_repeated = h_interrupts
    /\ ~h_repeatEffect
    /\ h_isInterrupted <=> h_timers # <<>>

\* Hume: interrupt() was called twice within one cooldown; the segment
\* submitted inside the cooldown was dropped and the one submitted after it
\* has been sent for synthesis.
C11_Witness ==
    /\ h_repeated = 1
    /\ h_onInterrupt = 1
    /\ h_results = <<"dropped", "sent">>

\* C12: Hume TTS abandons a segment on an error only when the connection
\* attempt made for that segment failed: a segment submitted after a failed
\* attempt gets an attempt of its own, so no more segments have ended in an
\* error than connection attempts have failed.
C12_HumeFailedAttemptAbandonsOneSegment ==
    Cardinality({i \in 1..Len(h_results) : h_results[i] = "error"}) <=
        Cardinality({s \in Sockets : h_sock[s].state = "failed"})

(***************************************************************************)
(* Properties of the voice sessions                                        *)
(***************************************************************************)

\* C13: sessions share no mutable state: closeConnection is called in a
\* session only for a hang-up the agent of that same session asked for.
C13_HangUpStaysInItsSession ==
    \A i \in 1..Len(t_closes) : t_closes[i].session = t_closes[i].reasonOf

(***************************************************************************)
(* Properties of the OpenAI speech-to-text adapter                         *)
(***************************************************************************)

\* Frame i of the stream has speech-level energy.
SpeechLevel(i) == s_stream[i].energy > vadEnergyThreshold

Last(seq) == seq[Len(seq)]

Elements(seq) == {seq[i] : i \in 1..Len(seq)}

\* The frames of buffer u follow one another in the stream.
Contiguous(u) == \A j \in 1..(Len(u) - 1) : u[j + 1] = u[j] + 1

\* The last frame handed to processFrame ended utterance i.
JustFlushed(i) == Last(s_flushed[i]) = Len(s_stream)

\* C14: a flushed utterance holds, in stream order, the frames of its speech
\* segment from the onset on, the speech frames that led to the transition
\* included: it begins at the first frame of the stream or right after a
\* silence frame, and it ends with the silence frames of the hangover.
C14_UtteranceFromOnset ==
    \A i \in 1..Len(s_flushed) :
        LET u == s_flushed[i]
        IN  /\ u # <<>>
            /\ Contiguous(u)
            /\ u[1] = 1 \/ ~SpeechLevel(u[1] - 1)
            /\ ~SpeechLevel(Last(u))

\* C15: every transition to Speaking signals speech-start once, at the
\* transition, and is followed by at most one flush before the next
\* transition; a flushed buffer ends with vadSilenceFrames silence frames in
\* a row and holds no such row earlier; when not Speaking the buffer is
\* empty, and no frame is in two flushed buffers or in a flushed buffer and
\* the current one.
C15_OneSignalOneFlushPerUtterance ==
    /\ s_speechStarts = s_onsets
    /\ Len(s_flushed) <= Len(s_onsets)
    /\ Len(s_onsets) <= Len(s_flushed) + 1
    /\ \A i \in 1..Len(s_flushed) :
          LET u == s_flushed[i]
              n == Len(u)
              k == s_vadSilenceFrames
          IN  /\ s_onsets[i] = u[1]
              /\ Contiguous(u)
              /\ n > k
              /\ \A j \in (n - k + 1)..n : ~SpeechLevel(u[j])
              /\ \A a \in 1..(n - k) : \E b \in a..(a + k - 1) : SpeechLevel(u[b])
              /\ i < Len(s_onsets) => Last(u) < s_onsets[i + 1]
              /\ \A f \in Elements(s_vad.audioBuffer) : Last(u) < f
              /\ JustFlushed(i) => s_vad = VadIdle
    /\ ~s_vad.isSpeaking => s_vad.audioBuffer = <<>>

\* An utterance has been flushed after a speech frame had interrupted its
\* hangover of two silence frames.
C15_Witness ==
    /\ Len(s_flushed) = 1
    /\ JustFlushed(1)
    /\ s_vadSilenceFrames = 2
    /\ \E j \in 2..(Len(s_flushed[1]) - 1) :
          /\ ~SpeechLevel(s_flushed[1][j])
          /\ SpeechLevel(s_flushed[1][j + 1])

\* C16: a transition to Speaking, and so a speech-start and a flush, needs
\* minSpeechFrames speech frames in a row, all after the previous flush; a
\* shorter burst between silence frames causes none of them. Two
\* speech-starts are separated by a silence frame.
C16_ShortBurstIgnored ==
    /\ \A i \in 1..Len(s_onsets) :
          LET f == s_onsets[i]
          IN  /\ f >= minSpeechFrames
              /\ \A j \in (f - minSpeechFrames + 1)..f : SpeechLevel(j)
              /\ i > 1 => Last(s_flushed[i - 1]) <= f - minSpeechFrames
    /\ Elements(s_speechStarts) \subseteq Elements(s_onsets)
    /\ \A i \in 1..Len(s_flushed) : s_flushed[i][1] \in Elements(s_onsets)
    /\ \A i \in 1..(Len(s_speechStarts) - 1) :
          \E j \in (s_speechStarts[i] + 1)..(s_speechStarts[i + 1] - 1) :
              ~SpeechLevel(j)

\* A burst of three speech frames between two silence frames has passed
\* with no transition, and the four speech frames after it have started an
\* utterance.
C16_Witness ==
    /\ Len(s_stream) = 9
    /\ ~SpeechLevel(1)
    /\ \A j \in 2..4 : SpeechLevel(j)
    /\ ~SpeechLevel(5)
    /\ s_onsets = <<9>>
    /\ s_speechStarts = <<9>>

\* C17: as long as every frame of the stream has had an energy at or below
\* the threshold, nothing has happened: no transition, no speech-start, no
\* utterance, no request to the provider (partial ones included), no text.
C17_SilenceProducesNothing ==
    (\A i \in 1..Len(s_stream) : s_stream[i].energy <= vadEnergyThreshold) =>
        /\ s_onsets = <<>>
        /\ s_speechStarts = <<>>
        /\ s_flushed = <<>>
        /\ s_requests = <<>>
        /\ s_out = <<>>
        /\ s_partial = "none"
        /\ s_vad = VadIdle

\* A whole stream of frames at the threshold has been processed, the last
\* one put together from the bytes of two chunks.
C17_Witness ==
    /\ Len(s_stream) = MaxFrames
    /\ \A i \in 1..Len(s_stream) : s_stream[i].energy = vadEnergyThreshold
    /\ s_pc = "loop"
    /\ s_pendingBytes # <<>>

UnchunkedFrame(run, n) ==
    LET r == ProcessFrame(run.vad, n, s_stream[n].energy, s_vadSilenceFrames)
    IN  [vad |-> r.vad,
         speechStarts |-> IF r.signalled THEN Append(run.speechStarts, n)
                          ELSE run.speechStarts,
         flushed |-> IF r.speechEnded THEN Append(run.flushed, r.audioData)
                     ELSE run.flushed]

\* The detector run in one piece over the frames of the stream from frame n
\* on, after a run that has come to run.
RECURSIVE UnchunkedFrom(_, _)
UnchunkedFrom(run, n) ==
    IF n > Len(s_stream) THEN run
    ELSE UnchunkedFrom(UnchunkedFrame(run, n), n + 1)

\* The detector run in one piece over the whole stream.
Unchunked ==
    UnchunkedFrom([vad |-> VadIdle, speechStarts |-> <<>>, flushed |-> <<>>], 1)

\* C19: whatever the chunks, the k-th frame handed to processFrame is the
\* k-th bytesPerFrame bytes of the stream; fewer bytes than a frame are held
\* back, and between two calls they are the bytes received after the last
\* whole frame, and the speech-starts and the flushed buffers are those of
\* the stream processed in one piece; transform() never fails.
C19_ChunkingIsIrrelevant ==
    /\ \A k \in 1..Len(s_stream) :
          s_stream[k].bytes = ChunkBytes((k - 1) * bytesPerFrame, bytesPerFrame)
    /\ Len(s_pendingBytes) < bytesPerFrame
    /\ s_pc \in {"idle", "closed"} =>
          /\ Len(s_stream) = s_received \div bytesPerFrame
          /\ s_pendingBytes = ChunkBytes(Len(s_stream) * bytesPerFrame,
                                         s_received % bytesPerFrame)
          /\ LET whole == Unchunked
             IN  /\ s_speechStarts = whole.speechStarts
                 /\ s_flushed = whole.flushed
    /\ s_pc # "errored"

\* The frame that ended an utterance was put together from the bytes held
\* back from one chunk and the first bytes of the next.
C19_Witness ==
    /\ s_pc = "loop"
    /\ s_pendingBytes # <<>>
    /\ s_offset = bytesPerFrame
    /\ Len(s_flushed) = 1
    /\ JustFlushed(1)
    /\ Last(s_stream).bytes[1] = s_pendingBytes[1]

\* C20: an utterance whose request failed yields no text; the failure never
\* leaves transform(), so the stage is never errored: the detector is in its
\* initial state and the loop goes on with the next frame.
C20_FailedRequestSkipsUtterance ==
    /\ s_pc # "errored"
    /\ \A j \in 1..Len(s_failures) :
          LET i == s_failures[j]
          IN  /\ i \notin Elements(s_out)
              /\ JustFlushed(i) => s_vad = VadIdle

\* The request for the first utterance failed, and the second utterance was
\* detected, transcribed and its text enqueued.
C20_Witness ==
    /\ s_failures = <<1>>
    /\ s_requests = <<1, 2>>
    /\ s_out = <<2>>

\* C21: when the stage signals a speech onset, every listener registered
\* through addSpeechStartListener, the combined onSpeechStart of the
\* middleware included, is called for that onset.
C21_OnsetReachesEveryListener ==
    \A i \in 1..Len(s_speechStarts) :
        \A l \in Elements(s_listeners) :
            <<s_speechStarts[i], l>> \in Elements(s_listenerCalls)

(***************************************************************************)
(* Properties of the middleware composition and of the pipeline            *)
(***************************************************************************)
\* The callbacks the middlewares have for an event, in registration order.
Registered(event) ==
    SelectSeq([i \in 1..Len(m_middlewares) |->
                 [middleware |-> i, kind |-> m_middlewares[i][event]]],
              LAMBDA c : c.kind # "none")

\* The stages of a seam in a stream.
OfSeam(stream, seam) == SelectSeq(stream, LAMBDA stage : stage.kind = seam)

\* C22: every firing of a combined speech-start or audio-complete hook calls
\* all the callbacks registered for the event, in registration order; a
\* callback that throws does not keep the later ones from being called.
C22_FiringCallsEveryCallback ==
    m_fired.event # "none" => m_fired.called = Registered(m_fired.event)

\* The chain of a seam holds the transforms of every middleware, those of an
\* earlier middleware before those of a later one, each middleware's in its
\* own order.
ChainConcatenated(seam) ==
    LET chain == m_hooks[seam]
    IN  /\ \A i \in 1..Len(m_middlewares) :
              \A k \in 1..m_middlewares[i].transforms[seam] :
                  \E a \in 1..Len(chain) : chain[a] = Transform(seam, i, k)
        /\ \A a \in 1..Len(chain) : chain[a].kind = seam
        /\ \A a, b \in 1..Len(chain) :
              a < b => \/ chain[a].middleware < chain[b].middleware
                       \/ /\ chain[a].middleware = chain[b].middleware
                          /\ chain[a].k < chain[b].k

\* The data meets the transforms of a seam in the order of its chain.
ChainApplied(seam) ==
    /\ m_pc = "built" => OfSeam(m_pipeline, seam) = m_hooks[seam]
    /\ LET met == OfSeam(m_item, seam)
       IN  /\ Len(met) <= Len(m_hooks[seam])
           /\ met = SubSeq(m_hooks[seam], 1, Len(met))

\* When two or more middlewares have a callback for an event, one firing
\* calls all of them.
AllFire ==
    m_fired.event # "none" /\ Len(Registered(m_fired.event)) >= 2
        => Elements(Registered(m_fired.event)) \subseteq Elements(m_fired.called)

\* C23: the chain of each seam is the concatenation of the middlewares'
\* transforms in registration order, the pipeline applies them in that order
\* (the first registered sees the data first), and when two middlewares have
\* a callback for the same event, both are called on one occurrence.
C23_CompositionInRegistrationOrder ==
    /\ \A seam \in Seams : ChainConcatenated(seam) /\ ChainApplied(seam)
    /\ AllFire

\* The place of a stage in the order of the claim.
StageRank(kind) ==
    CASE kind = "beforeSTT" -> 1
      [] kind = "stt"       -> 2
      [] kind = "afterSTT"  -> 3
      [] kind = "agent"     -> 4
      [] kind = "beforeTTS" -> 5
      [] kind = "tts"       -> 6
      [] kind = "afterTTS"  -> 7

\* C24: an item of the pipeline process() built passes the pre-STT
\* transforms, STT, the post-STT transforms, the agent, the pre-TTS
\* transforms, TTS and the post-TTS transforms in this order: the pipeline
\* holds the three stages once each and every transform of every chain and
\* nothing else, ordered by that rank; the item has passed the first stages of
\* it, none skipped; a seam without transforms adds no stage.
C24_StagesInOrder ==
    /\ m_pc = "built" =>
          /\ \A kind \in {"stt", "agent", "tts"} : Len(OfSeam(m_pipeline, kind)) = 1
          /\ \A seam \in Seams : OfSeam(m_pipeline, seam) = m_hooks[seam]
          /\ \A a, b \in 1..Len(m_pipeline) :
                a < b => StageRank(m_pipeline[a].kind) <= StageRank(m_pipeline[b].kind)
    /\ Len(m_item) <= Len(m_pipeline)
    /\ m_item = SubSeq(m_pipeline, 1, Len(m_item))

\* An item has passed a whole pipeline with one transform before STT, none
\* after STT, two before TTS and none after TTS.
C24_Witness ==
    /\ m_pc = "built"
    /\ m_item = m_pipeline
    /\ Len(m_hooks.beforeSTT) = 1
    /\ m_hooks.afterSTT = <<>>
    /\ Len(m_hooks.beforeTTS) = 2
    /\ m_hooks.afterTTS = <<>>

(***************************************************************************)
(* The events of the agent's stream                                        *)
(***************************************************************************)
\* C25: the controller never forwards the content of a tool message (an
\* event with a tool_call_id) as speakable text: what a turn does downstream
\* is response-text chunks and suspension prompts, next to the callbacks; the
\* content of the hang_up tool is the reason onHangUp is called with.
C25_ToolContentNeverSpoken ==
    /\ Positions(a_log, "toolContent") = {}
    /\ Elements(a_log) \subseteq {"chunk", "prompt", "tool", "hangup", "onInterrupt"}
    /\ Positions(a_log, "hangup") # {} => a_hangup # "null"

\* A turn met the hang_up tool message with a text content, forwarded
\* nothing for it, forwarded the response chunk that followed and called
\* onHangUp with the content.
C25_Witness ==
    /\ a_pc = "query"
    /\ a_log = <<"tool", "chunk", "hangup">>
    /\ a_hangup = "text"

\* C26: an event of no known shape is a no-op: nothing is forwarded for it,
\* no error is raised, and the transform goes on (it is errored only by an
\* error of the agent collaborator).
C26_UnrecognizedEventIgnored ==
    /\ a_shape # "threw"
    /\ a_pc = "errored" => a_faults > 0

(***************************************************************************)
(* Properties of direct synthesis                                          *)
(***************************************************************************)
\* C27: speak() is isolated from the main pipeline: every audio chunk
\* synthesised for it is enqueued on its stream, whether interrupt() was
\* called before or during it; an interrupt() changes nothing of a speak()
\* stream, so it goes on to its end; and no step of a speak() changes the
\* connection, the interrupted flag or anything else of the main pipeline.
C27_SpeakIsolated ==
    /\ [](o_speak.out = o_speak.made /\ h_speak.out = h_speak.made)
    /\ [][(OpenAIInterrupt \/ HumeInterrupt) => UNCHANGED speakVars]_vars
    /\ [][speakVars' # speakVars => UNCHANGED <<openaiVars, humeVars, wiringVars, langVars, hitlVars>>]_vars

\* A speak() of the OpenAI adapter streamed its chunks while isInterrupted
\* was set and closed its stream.
C27_Witness ==
    /\ o_speak.pc = "closed"
    /\ o_speak.interrupted
    /\ o_speak.made > 1
    /\ o_speak.out = o_speak.made

(***************************************************************************)
(* Properties of the mu-law codec and of PcmToMulawTransform               *)
(***************************************************************************)
\* C28: for every 16-bit sample x, decoding the byte linearToMulaw(x) with
\* MULAW_TO_LINEAR gives x back within the quantization step of the segment
\* x falls in, 2^(segment + 3) (a sample beyond the clip level counts as the
\* clip level), and with the sign of x or zero.
C28_RoundTripWithinStep ==
    c_pc = "decoded" =>
        LET segment == ((255 - c_mulaw) \div 16) % 8
            x == IF c_sample > MULAW_CLIP THEN MULAW_CLIP
                 ELSE IF c_sample < -MULAW_CLIP THEN -MULAW_CLIP
                 ELSE c_sample
            error == IF c_linear >= x THEN c_linear - x ELSE x - c_linear
        IN  /\ error <= 2^(segment + 3)
            /\ c_sample >= 0 => c_linear >= 0
            /\ c_sample < 0 => c_linear <= 0

\* What transform() enqueues for the whole stream handed over as one chunk.
WholeStream == Downsample(p_bytes, 0, 0, p_rate, <<>>).out

\* C29: a chunk that ends in the middle of a 16-bit sample raises no error,
\* and its last byte is kept and completed by the next chunk: whatever the
\* lengths of the chunks, the samples encoded are those of the stream read
\* in pairs from its first byte.
C29_PartialSampleCarried ==
    p_out = WholeStream

\* C30: for a stream split into chunks of whole samples, the concatenation
\* of the outputs equals the output for the stream handed over as one chunk.
C30_WholeSampleChunkingIsIrrelevant ==
    (\A i \in 1..Len(p_chunks) : p_chunks[i] % 2 = 0) => p_out = WholeStream

\* At 12 kHz (ratio 1.5) a chunk of one sample left the position at 1, and a
\* chunk of two samples followed: both of its samples were emitted.
C30_Witness ==
    /\ p_rate = 12000
    /\ p_chunks = <<2, 4>>
    /\ Len(p_out) = 2
    /\ p_acc = 0

(***************************************************************************)
(* Stop, suspension state and cooldown                                     *)
(***************************************************************************)
\* C35: once stop() has been called, no agent invocation is started for a
\* later input, and a turn that was in progress forwards no further text,
\* calls neither onHangUp nor onInterrupt and records no new suspension.
C35_NothingAfterStop ==
    [][a_stopped => /\ a_call' = a_call
                    /\ a_log' = a_log
                    /\ a_pending' = a_pending]_vars

\* C36: after a completed turn the controller is in AwaitingResume
\* (state.pendingInterrupt is set, so the next input is sent as a resume)
\* exactly when the state query of the turn reported an interrupt, whatever
\* its payload.
C36_AwaitingResumeIffReported ==
    TurnCompleted => ((a_pending # "undefined") <=> a_reported)

\* C37: after every interrupt() the OpenAI adapter stays interrupted for the
\* whole cooldown counted from that call: while the timer of an interrupt()
\* has time left, isInterrupted is set.
C37_CooldownFromLatestInterrupt ==
    (\E i \in 1..Len(o_timers) : o_timers[i] > 0) => o_isInterrupted

\* C33: a text segment submitted after interruptTTS() has taken effect is
\* sent on a WebSocket created after that interrupt, never on a connection
\* from before it: the audio on its way on a socket that predates the
\* interrupt is that of segments submitted before the interrupt.
C33_CleanConnectionAfterInterrupt ==
    \A s \in Sockets :
        h_sock[s].stale =>
            \A i \in 1..Len(h_sock[s].inflight) : h_sock[s].inflight[i] \in h_cut

\* C40: the stream of a Hume speak() is closed exactly once and no handler
\* of its WebSocket throws: controller.close() is never called on a stream
\* that is closed already.
C40_SpeakStreamClosedOnce ==
    h_speak.closes <= 1

\* C39: flush() always completes, by the 5 s timer when the provider never
\* closes the socket; once it has completed the socket it held is closed and
\* ws is cleared; a text segment processed after flush() began is dropped
\* and opens no connection.
C39_FlushCompletes ==
    /\ (h_flush = "awaiting") ~> (h_flush = "done")
    /\ [](h_flush = "done" =>
            h_ws = 0 /\ \A s \in Sockets : h_sock[s].state # "open")
    /\ [][h_isShuttingDown =>
            /\ h_nsock' = h_nsock
            /\ h_segs' # h_segs => h_results' = Append(h_results, "dropped")]_vars

\* flush() was ended by its timer, the socket still open until then, and a
\* segment processed afterwards was dropped.
C39_Witness ==
    /\ h_flush = "done"
    /\ h_flushTimer = "fired"
    /\ h_closePromise = "pending"
    /\ h_audioComplete = 0
    /\ h_results # <<>> /\ h_results[Len(h_results)] = "dropped"
    /\ h_isShuttingDown

\* The utterances that are long enough to be sent to a request.
LongEnough ==
    {i \in 1..Len(s_flushed) : ~TooShort(s_flushed[i], s_minAudioDurationMs)}

\* The numbers of seq go up.
Increasing(seq) ==
    \A i, j \in 1..Len(seq) : i < j => seq[i] < seq[j]

\* C31: partial transcription requests never change what is finalised: the
\* utterances flushed are those of the detector run over the stream with no
\* partial request at all, a request for a final text is made for each of
\* them that is long enough and whose file could be built, in order, and the
\* texts enqueued are answers to these requests, in order, whether a partial
\* request was never made, is running or has settled.
C31_PartialsNeverAffectFinals ==
    /\ s_flushed = Unchunked.flushed
    /\ Elements(s_requests) \subseteq LongEnough
    /\ LongEnough \ (IF s_pc = "toFile" THEN {Len(s_flushed)} ELSE {})
          \subseteq Elements(s_requests) \cup Elements(s_failures)
    /\ Increasing(s_requests)
    /\ Elements(s_out) \subseteq Elements(s_requests)
    /\ Increasing(s_out)

\* A partial request was made during the second utterance and is still
\* running when the text of that utterance is enqueued after the first's.
C31_Witness ==
    /\ s_partial = "running"
    /\ s_out = <<1, 2>>
    /\ s_pc = "loop"

\* C32: the connection is closed for a hang-up only when the audio of every
\* text segment of the turn that signalled it has been delivered: no
\* audio-complete of an earlier segment closes it while text of that turn
\* is still waiting for synthesis.
C32_HangUpAfterAllAudio ==
    w_closedAt # -1 =>
        \A i \in 1..Len(w_forwarded) :
            w_forwarded[i] = w_signalled => i <= w_closedAt

\* C34: for every confirmation prompt of the tools, the confirm button
\* resumes the tool with a value it takes for a confirmation, and the cancel
\* button with a value it takes for a rejection.
C34_ButtonsMatchTools ==
    \A i \in 1..Len(g_log) :
        g_log[i].confirmed <=> g_log[i].button = "confirm"

\* C38: _call returns the content of every chat model event of the body,
\* each once and in order, however the body is cut into network chunks.
C38_ReturnsEveryContentOnce ==
    l_pc = "returned" =>
        LET whole == ParsedContent(l_events, Len(l_events) * UnitsPerLine)
        IN  l_result = IF whole = <<>> THEN <<0>> ELSE whole

====
